---------------------------- MODULE Spec2Model ----------------------------
(***************************************************************************)
(* State-machine models of the example scripts and guides of the           *)
(* repository.  Each script is an independent program, so each one has its *)
(* own specification (SpecVars, SpecAssets, ...) over its own variables;   *)
(* the variables of the other scripts stay at their idle values.           *)
(*                                                                         *)
(* Strings that the code edits character by character are sequences of     *)
(* one-character strings.                                                  *)
(***************************************************************************)
EXTENDS Integers, Sequences, FiniteSets, TLC

\* ---- guides/customizing_saving_and_serialization.py: custom variables ----
VARIABLES cv_pc, cv_epochs, stored_variables, cv_store, restored_stored_variables

varsCV == <<cv_pc, cv_epochs, stored_variables, cv_store, restored_stored_variables>>

\* ---- guides/customizing_saving_and_serialization.py: custom assets ----
VARIABLES ca_pc, assets, assets_txt, restored_assets

varsCA == <<ca_pc, assets, assets_txt, restored_assets>>

\* ---- guides/customizing_saving_and_serialization.py: custom build ----
VARIABLES cb_pc, custom_layer, model_built, cb_file, restored_layer, restored_built

varsCB == <<cb_pc, custom_layer, model_built, cb_file, restored_layer, restored_built>>

\* ---- guides/customizing_saving_and_serialization.py: custom compile ----
VARIABLES cc_pc, model_optimizer, loss_fn, loss_metrics, cc_file,
          restored_model_optimizer, restored_loss_fn, restored_loss_metrics

varsCC == <<cc_pc, model_optimizer, loss_fn, loss_metrics, cc_file,
            restored_model_optimizer, restored_loss_fn, restored_loss_metrics>>

\* ---- examples/generative/pixelcnn.py: one PixelConvLayer being built ----
VARIABLES pm_pc, mask_type, kernel_shape, mask

varsPM == <<pm_pc, mask_type, kernel_shape, mask>>

\* ---- examples/generative/pixelcnn.py: training and the generation loop ----
VARIABLES pg_pc, kernels, epochs, pixels, row, col, probs, sampled

varsPG == <<pg_pc, kernels, epochs, pixels, row, col, probs, sampled>>

\* ---- examples/vision/siamese.py: make_pairs ----
VARIABLES mp_pc, mp_x, mp_y, num_classes, digit_indices, pairs, labels, idx1, label2

varsMP == <<mp_pc, mp_x, mp_y, num_classes, digit_indices, pairs, labels, idx1, label2>>

\* ---- examples/vision/siamese.py: visualize ----
VARIABLES vz_pc, arg_to_show, to_show, num_col, num_row, axes, vz_i, plotted

varsVZ == <<vz_pc, arg_to_show, to_show, num_col, num_row, axes, vz_i, plotted>>

\* ---- examples/vision/cutmix.py: cutmix and get_box ----
VARIABLES cm_pc, image1, image2, cm_label1, cm_label2, lam, box, image, label

varsCM == <<cm_pc, image1, image2, cm_label1, cm_label2, lam, box, image, label>>

\* ---- examples/nlp/multi_label_classification.py: unify_text_length ----
VARIABLES ut_pc, ut_text, ut_label, word_splits, sequence_length, padding_amount,
          unified_text, ut_returned

varsUT == <<ut_pc, ut_text, ut_label, word_splits, sequence_length, padding_amount,
            unified_text, ut_returned>>

\* ---- examples/vision/semisupervised_simclr.py: ContrastiveModel ----
VARIABLES sc_pc, sc_weights, contrastive_iterations, probe_iterations,
          contrastive_accuracy, probe_accuracy, sc_epoch, sc_step, sc_val,
          sc_before, sc_trace

varsSC == <<sc_pc, sc_weights, contrastive_iterations, probe_iterations,
            contrastive_accuracy, probe_accuracy, sc_epoch, sc_step, sc_val,
            sc_before, sc_trace>>

\* ---- examples/vision/cait.py: CaiT.call ----
VARIABLES ct_pc, ct_inputs, cls_token, ct_x, cls_tokens, sa_ffn_attn, ca_ffn_attn,
          ct_blk, ct_log, ct_result

varsCT == <<ct_pc, ct_inputs, cls_token, ct_x, cls_tokens, sa_ffn_attn, ca_ffn_attn,
            ct_blk, ct_log, ct_result>>

\* ---- the scripts' calls of compile, fit and evaluate ----
VARIABLES so_script, so_pc, so_status, so_models, so_log, so_iter, best_decoder,
          score_to_beat, worst_score

varsSO == <<so_script, so_pc, so_status, so_models, so_log, so_iter, best_decoder,
            score_to_beat, worst_score>>

\* The value of an attribute that is not set and of a file that is not
\* written: a one-element sequence that is no text and no array.
None == <<"None">>

(***************************************************************************)
(* LayerWithCustomVariables                                                *)
(***************************************************************************)

\* Shape of the special_arr variable, (10,).
VarLen == 10

\* Values an element of the array takes (the model's stand-in for float32).
MaxVal == 3

Vals == 0..MaxVal

\* Number of fit() calls before the model is saved.
MaxFits == 2

\* np.random.random((10,)): the arrays the model draws from.
RandomArrays == { [i \in 1..VarLen |-> (a * i + b) % (MaxVal + 1)] : a \in Vals, b \in Vals }

\* __init__: stored_variables = tf.Variable(np.random.random((10,)), ...)
LayerWithCustomVariablesInit(arr) == arr

\* A bug: the array is stored under the key the default implementation uses.
save_own_variables_wrong_key(sv, store) == [k \in (DOMAIN store) \cup {"0"} |-> IF k = "0" THEN sv ELSE store[k]]

\* save_own_variables: store["variables"] = self.stored_variables.numpy()
save_own_variables(sv, store) == [k \in (DOMAIN store) \cup {"variables"} |-> IF k = "variables" THEN sv ELSE store[k]]

\* The empty store of a file not written yet.
EmptyStore == [k \in {} |-> None]

\* load_own_variables: self.stored_variables.assign(store["variables"]);
\* a missing key raises and the variable keeps its value; assign needs the
\* shapes to agree.
load_own_variables(sv, store) == IF "variables" \in DOMAIN store /\ DOMAIN store["variables"] = DOMAIN sv THEN store["variables"] ELSE sv

\* One optimizer step of fit(): every element moves by its gradient.
FitStep(sv, grad) == [i \in DOMAIN sv |-> (sv[i] + grad[i]) % (MaxVal + 1)]

CVInitState == /\ cv_pc = "constructed"
               /\ cv_epochs = 0
               /\ stored_variables \in { LayerWithCustomVariablesInit(a) : a \in RandomArrays }
               /\ cv_store = EmptyStore
               /\ restored_stored_variables = None

CVIdle == /\ cv_pc = "idle"
          /\ cv_epochs = 0
          /\ stored_variables = None
          /\ cv_store = EmptyStore
          /\ restored_stored_variables = None

\* model.compile(optimizer="adam", loss="mean_squared_error")
CVCompile == /\ cv_pc = "constructed"
             /\ cv_pc' = "compiled"
             /\ UNCHANGED <<cv_epochs, stored_variables, cv_store, restored_stored_variables>>

\* model.fit(ref_input, ref_output)
CVFit == /\ cv_pc = "compiled"
         /\ cv_epochs < MaxFits
         /\ \E grad \in RandomArrays :
               stored_variables' = FitStep(stored_variables, grad)
         /\ cv_epochs' = cv_epochs + 1
         /\ UNCHANGED <<cv_pc, cv_store, restored_stored_variables>>

\* model.save("custom_vars_model.keras")
CVSave == /\ cv_pc = "compiled"
          /\ cv_store' = save_own_variables(stored_variables, EmptyStore)
          /\ cv_pc' = "saved"
          /\ UNCHANGED <<cv_epochs, stored_variables, restored_stored_variables>>

\* keras.models.load_model("custom_vars_model.keras"): the layer is
\* constructed anew (fresh random values) and then loads its variables.
CVLoad == /\ cv_pc = "saved"
          /\ \E arr \in RandomArrays :
                restored_stored_variables' = load_own_variables(LayerWithCustomVariablesInit(arr), cv_store)
          /\ cv_pc' = "loaded"
          /\ UNCHANGED <<cv_epochs, stored_variables, cv_store>>

(***************************************************************************)
(* LayerWithCustomAssets                                                   *)
(***************************************************************************)

\* "<unk>" and "little", the two arguments of text.replace.
UnkToken == <<"<", "u", "n", "k", ">">>

LittleWord == <<"l", "i", "t", "t", "l", "e">>

\* The sentence build() gives a layer that has no assets yet.
BuildSentence == <<"M", "a", "r", "y", " ", "h", "a", "d", " ", "a", " ", "<", "u", "n", "k", ">", " ", "l", "a", "m", "b", ".">>

\* Longest text, in pieces, that a caller sets as the layer's assets before
\* build() runs.
MaxPieces == 3

Pieces == { UnkToken, <<"<">>, <<"u", "n", "k", ">">>, <<"a", " ">> }

RECURSIVE Concat(_)
Concat(ps) == IF ps = <<>> THEN <<>> ELSE Head(ps) \o Concat(Tail(ps))

PresetTexts == { Concat(ps) : ps \in UNION { [1..n -> Pieces] : n \in 0..MaxPieces } }

\* Whether text t has the token tok at position i.
OccursAt(t, tok, i) == /\ i + Len(tok) - 1 <= Len(t)
                       /\ SubSeq(t, i, i + Len(tok) - 1) = tok

Contains(t, tok) == \E i \in 1..Len(t) : OccursAt(t, tok, i)

\* A bug: only the first occurrence is replaced (str.replace(old, new, 1)).
RECURSIVE ReplaceFirst(_, _, _)
ReplaceFirst(t, old, new) ==
    IF Len(t) < Len(old) THEN t
    ELSE IF OccursAt(t, old, 1) THEN new \o SubSeq(t, Len(old) + 1, Len(t))
    ELSE <<Head(t)>> \o ReplaceFirst(Tail(t), old, new)

\* str.replace(old, new): every occurrence, scanning from the left, the
\* occurrences not overlapping.
RECURSIVE Replace(_, _, _)
Replace(t, old, new) ==
    IF Len(t) < Len(old) THEN t
    ELSE IF OccursAt(t, old, 1) THEN new \o Replace(SubSeq(t, Len(old) + 1, Len(t)), old, new)
    ELSE <<Head(t)>> \o Replace(Tail(t), old, new)

\* LayerWithCustomAssets.build: if not hasattr(self, "assets"): self.assets = ...
LayerWithCustomAssetsBuild(a) == IF a = None THEN BuildSentence ELSE a

\* save_assets: f.write(self.assets) into assets.txt
save_assets(a) == a

\* A bug: the text is read back but "<unk>" is replaced only once.
load_assets_first_only(txt) == ReplaceFirst(txt, UnkToken, LittleWord)

\* load_assets: text = f.read(); self.assets = text.replace("<unk>", "little")
load_assets(txt) == Replace(txt, UnkToken, LittleWord)

CAInitState == /\ ca_pc = "constructed"
               /\ assets \in {None} \cup PresetTexts
               /\ assets_txt = None
               /\ restored_assets = None

CAIdle == /\ ca_pc = "idle"
          /\ assets = None
          /\ assets_txt = None
          /\ restored_assets = None

\* y = model(x): the first call builds the layer.
CABuild == /\ ca_pc = "constructed"
           /\ assets' = LayerWithCustomAssetsBuild(assets)
           /\ ca_pc' = "built"
           /\ UNCHANGED <<assets_txt, restored_assets>>

\* model.save("custom_assets_model.keras")
CASave == /\ ca_pc = "built"
          /\ assets_txt' = save_assets(assets)
          /\ ca_pc' = "saved"
          /\ UNCHANGED <<assets, restored_assets>>

\* keras.models.load_model("custom_assets_model.keras"): the restored layer
\* is constructed without assets and built, then load_assets reads the file.
CALoad == /\ ca_pc = "saved"
          /\ LET built == LayerWithCustomAssetsBuild(None)
             IN  restored_assets' = IF assets_txt = None THEN built ELSE load_assets(assets_txt)
          /\ ca_pc' = "loaded"
          /\ UNCHANGED <<assets, assets_txt>>

(***************************************************************************)
(* LayerWithCustomBuild                                                    *)
(* An object is the record of its attributes: hasattr is membership in the *)
(* record's DOMAIN.                                                        *)
(***************************************************************************)

\* Largest units argument and largest input dimension the model tries.
MaxUnits == 3

MaxDim == 3

Initializers == {"random_normal", "zeros", "glorot_uniform"}

\* input_shape tuples: (d,) and (d, d).
InputShapes == { <<d>> : d \in 1..MaxDim } \cup { <<d, d>> : d \in 1..MaxDim }

\* __init__(units): self.units = units; the layer is not built.
LayerWithCustomBuildInit(units) == [units |-> units, built |-> FALSE]

\* get_config: dict(units=self.units, ...)
get_config(layer) == [units |-> layer.units]

\* build(input_shape, layer_init): super().build(input_shape) marks the layer
\* built and records the shape; w and b are created with the initializer;
\* self.layer_init = layer_init.
LayerWithCustomBuildBuild(layer, input_shape, layer_init) ==
    [units |-> layer.units,
     built |-> TRUE,
     input_shape |-> input_shape,
     w |-> [shape |-> <<input_shape[Len(input_shape)], layer.units>>, initializer |-> layer_init],
     b |-> [shape |-> <<layer.units>>, initializer |-> layer_init],
     layer_init |-> layer_init]

\* A bug: the default get_build_config, which gives input_shape only.
get_build_config_default(layer) == [input_shape |-> layer.input_shape]

\* get_build_config: super().get_build_config() updated with layer_init.
get_build_config(layer) == [input_shape |-> layer.input_shape, layer_init |-> layer.layer_init]

\* build_from_config: self.build(config["input_shape"], config["layer_init"]);
\* a missing key raises KeyError and the layer stays as it was.
build_from_config(layer, config) ==
    IF {"input_shape", "layer_init"} \subseteq DOMAIN config
    THEN LayerWithCustomBuildBuild(layer, config.input_shape, config.layer_init)
    ELSE layer

CBInitState == /\ cb_pc = "start"
               /\ custom_layer = [built |-> FALSE]
               /\ model_built = FALSE
               /\ cb_file = [written |-> FALSE]
               /\ restored_layer = [built |-> FALSE]
               /\ restored_built = FALSE

CBIdle == /\ cb_pc = "idle"
          /\ custom_layer = [built |-> FALSE]
          /\ model_built = FALSE
          /\ cb_file = [written |-> FALSE]
          /\ restored_layer = [built |-> FALSE]
          /\ restored_built = FALSE

\* custom_layer = LayerWithCustomBuild(units=16)
CBConstruct == /\ cb_pc = "start"
               /\ \E u \in 1..MaxUnits : custom_layer' = LayerWithCustomBuildInit(u)
               /\ cb_pc' = "constructed"
               /\ UNCHANGED <<model_built, cb_file, restored_layer, restored_built>>

\* custom_layer.build(input_shape=(8,), layer_init="random_normal")
CBBuild == /\ cb_pc = "constructed"
           /\ \E shape \in InputShapes, init \in Initializers :
                 custom_layer' = LayerWithCustomBuildBuild(custom_layer, shape, init)
           /\ cb_pc' = "built"
           /\ UNCHANGED <<model_built, cb_file, restored_layer, restored_built>>

\* model = keras.Sequential([custom_layer, Dense(1)]); y = model(x): the
\* first call builds the model around the layer built by hand.
CBCall == /\ cb_pc = "built"
          /\ model_built' = custom_layer.built
          /\ cb_pc' = "called"
          /\ UNCHANGED <<custom_layer, cb_file, restored_layer, restored_built>>

\* model.save("custom_build_model.keras"): the layer's config and build
\* config go into the file.
CBSave == /\ cb_pc = "called"
          /\ cb_file' = [written |-> TRUE,
                         config |-> get_config(custom_layer),
                         build_config |-> get_build_config(custom_layer),
                         model_built |-> model_built]
          /\ cb_pc' = "saved"
          /\ UNCHANGED <<custom_layer, model_built, restored_layer, restored_built>>

\* keras.models.load_model("custom_build_model.keras"): the layer is made
\* from its config, then built from its build config; the restored model is
\* built when it was saved built and its layers are built again.
CBLoad == /\ cb_pc = "saved"
          /\ cb_file.written
          /\ LET fresh == LayerWithCustomBuildInit(cb_file.config.units)
                 again == build_from_config(fresh, cb_file.build_config)
             IN  /\ restored_layer' = again
                 /\ restored_built' = (cb_file.model_built /\ again.built)
          /\ cb_pc' = "loaded"
          /\ UNCHANGED <<custom_layer, model_built, cb_file>>

(***************************************************************************)
(* ModelWithCustomCompile                                                  *)
(* A Python value is a record: a string [kind |-> "str", name |-> s] or a  *)
(* function [kind |-> "function", name |-> f]; a list is a sequence.       *)
(***************************************************************************)

Str(s) == [kind |-> "str", name |-> s]

Fn(f) == [kind |-> "function", name |-> f]

\* The functions registered with register_keras_serializable under
\* package "my_custom_package".
Registered == {"small_square_sum_loss", "mean_pred"}

OptimizerArgs == {Str("SGD"), Str("adam"), Str("rmsprop")}

LossArgs == {Fn("small_square_sum_loss"), Str("mean_squared_error")}

MetricItems == {Str("accuracy"), Fn("mean_pred")}

\* Longest metrics list passed to compile().
MaxMetrics == 2

MetricArgs == UNION { [1..n -> MetricItems] : n \in 0..MaxMetrics }

\* Saving serializes a value: a string stays itself, a registered function
\* becomes its registered name "my_custom_package>name".
serialize_keras_object(v) ==
    IF v.kind = "function" /\ v.name \in Registered
    THEN [kind |-> "config", class_name |-> "function", package |-> "my_custom_package", name |-> v.name]
    ELSE v

serialize_list(vs) == [i \in DOMAIN vs |-> serialize_keras_object(vs[i])]

\* keras.utils.deserialize_keras_object: a plain string is returned as it
\* is, a function config is looked up among the registered functions.
deserialize_keras_object(c) ==
    IF c.kind = "config" /\ c.class_name = "function" /\ c.name \in Registered
    THEN Fn(c.name)
    ELSE c

deserialize_list(cs) == [i \in DOMAIN cs |-> deserialize_keras_object(cs[i])]

\* compile(optimizer, loss_fn, metrics): the three attributes it sets.
ModelWithCustomCompileCompile(optimizer, loss, metrics) ==
    [model_optimizer |-> optimizer, loss_fn |-> loss, loss_metrics |-> metrics]

\* A bug: the metrics are written under the key "metrics", which
\* compile_from_config does not read.
get_compile_config_wrong_key(opt, loss, metrics) ==
    [model_optimizer |-> opt, loss_fn |-> loss, metrics |-> metrics]

\* get_compile_config: {"model_optimizer": ..., "loss_fn": ..., "metric": ...}
get_compile_config(opt, loss, metrics) ==
    [model_optimizer |-> opt, loss_fn |-> loss, metric |-> metrics]

\* An attribute compile() has not set yet.
NoValue == [kind |-> "unset"]

\* compile_from_config: deserializes config["model_optimizer"],
\* config["loss_fn"] and config["metric"] and calls compile with them; a
\* missing key raises KeyError before compile is called.
compile_from_config(config) ==
    IF {"model_optimizer", "loss_fn", "metric"} \subseteq DOMAIN config
    THEN LET optimizer == deserialize_keras_object(config.model_optimizer)
             loss == deserialize_keras_object(config.loss_fn)
             metrics == deserialize_list(config.metric)
         IN  ModelWithCustomCompileCompile(optimizer, loss, metrics)
    ELSE [model_optimizer |-> NoValue, loss_fn |-> NoValue, loss_metrics |-> <<>>]

CCInitState == /\ cc_pc = "constructed"
               /\ model_optimizer = NoValue
               /\ loss_fn = NoValue
               /\ loss_metrics = <<>>
               /\ cc_file = [written |-> FALSE]
               /\ restored_model_optimizer = NoValue
               /\ restored_loss_fn = NoValue
               /\ restored_loss_metrics = <<>>

CCIdle == /\ cc_pc = "idle"
          /\ model_optimizer = NoValue
          /\ loss_fn = NoValue
          /\ loss_metrics = <<>>
          /\ cc_file = [written |-> FALSE]
          /\ restored_model_optimizer = NoValue
          /\ restored_loss_fn = NoValue
          /\ restored_loss_metrics = <<>>

\* model.compile(optimizer="SGD", loss_fn=small_square_sum_loss, metrics=[...])
CCCompile == /\ cc_pc = "constructed"
             /\ \E o \in OptimizerArgs, l \in LossArgs, m \in MetricArgs :
                   LET c == ModelWithCustomCompileCompile(o, l, m)
                   IN  /\ model_optimizer' = c.model_optimizer
                       /\ loss_fn' = c.loss_fn
                       /\ loss_metrics' = c.loss_metrics
             /\ cc_pc' = "compiled"
             /\ UNCHANGED <<cc_file, restored_model_optimizer, restored_loss_fn, restored_loss_metrics>>

\* model.fit(x, y): training leaves the compile arguments alone.
CCFit == /\ cc_pc = "compiled"
         /\ cc_pc' = "fitted"
         /\ UNCHANGED <<model_optimizer, loss_fn, loss_metrics, cc_file,
                        restored_model_optimizer, restored_loss_fn, restored_loss_metrics>>

\* model.save("custom_compile_model.keras"): the compile config is
\* serialized into the file.
CCSave == /\ cc_pc \in {"compiled", "fitted"}
          /\ LET c == get_compile_config(model_optimizer, loss_fn, loss_metrics)
             IN  cc_file' = [written |-> TRUE,
                             compile_config |-> [k \in DOMAIN c |->
                                 IF k \in {"metric", "metrics"} THEN serialize_list(c[k])
                                 ELSE serialize_keras_object(c[k])]]
          /\ cc_pc' = "saved"
          /\ UNCHANGED <<model_optimizer, loss_fn, loss_metrics,
                         restored_model_optimizer, restored_loss_fn, restored_loss_metrics>>

\* keras.models.load_model("custom_compile_model.keras")
CCLoad == /\ cc_pc = "saved"
          /\ cc_file.written
          /\ LET c == compile_from_config(cc_file.compile_config)
             IN  /\ restored_model_optimizer' = c.model_optimizer
                 /\ restored_loss_fn' = c.loss_fn
                 /\ restored_loss_metrics' = c.loss_metrics
          /\ cc_pc' = "loaded"
          /\ UNCHANGED <<model_optimizer, loss_fn, loss_metrics, cc_file>>

(***************************************************************************)
(* PixelConvLayer (examples/generative/pixelcnn.py)                        *)
(* A kernel and its mask are functions on the index tuples                 *)
(* <<row, column, input channel, output channel>>, counted from 0.         *)
(***************************************************************************)

\* Largest kernel height and width (the script uses 7, 3 and 1) and largest
\* number of input and of output channels the model builds a layer with.
MaxKernel == 7

MaxChannels == 2

MaskTypes == {"A", "B"}

KernelIndex(ks) == (0..(ks[1] - 1)) \X (0..(ks[2] - 1)) \X (0..(ks[3] - 1)) \X (0..(ks[4] - 1))

\* A bug: the rows up to and including the centre row are set to one.
PixelConvLayerBuildRowsOff(mt, ks) ==
    [x \in KernelIndex(ks) |-> IF x[1] <= ks[1] \div 2 THEN 1 ELSE 0]

\* PixelConvLayer.build: the mask starts as zeros; the rows above the centre
\* row are set to one; in the centre row the columns left of the centre are
\* set to one; for mask type "B" the centre is set to one.  The "..." of each
\* assignment covers every channel.
PixelConvLayerBuild(mt, ks) ==
    LET zeros == [x \in KernelIndex(ks) |-> 0]
        above == [x \in KernelIndex(ks) |-> IF x[1] < ks[1] \div 2 THEN 1 ELSE zeros[x]]
        left  == [x \in KernelIndex(ks) |->
                     IF x[1] = ks[1] \div 2 /\ x[2] < ks[2] \div 2 THEN 1 ELSE above[x]]
        centre == [x \in KernelIndex(ks) |->
                     IF x[1] = ks[1] \div 2 /\ x[2] = ks[2] \div 2 THEN 1 ELSE left[x]]
    IN  IF mt = "B" THEN centre ELSE left

NoMask == [x \in {} |-> 0]

PMInitState == /\ pm_pc = "start"
               /\ mask_type = "A"
               /\ kernel_shape = <<1, 1, 1, 1>>
               /\ mask = NoMask

PMIdle == /\ pm_pc = "idle"
          /\ mask_type = "A"
          /\ kernel_shape = <<1, 1, 1, 1>>
          /\ mask = NoMask

\* PixelConvLayer(mask_type, **kwargs) called on an input: __init__ keeps
\* the mask type and makes the Conv2D, whose kernel size and filters with the
\* input's channels give the kernel's shape.
PMConstruct == /\ pm_pc = "start"
               /\ mask_type' \in MaskTypes
               /\ \E kh \in 1..MaxKernel, kw \in 1..MaxKernel, cin \in 1..MaxChannels, cout \in 1..MaxChannels :
                     kernel_shape' = <<kh, kw, cin, cout>>
               /\ pm_pc' = "constructed"
               /\ UNCHANGED mask

\* build(input_shape)
PMBuild == /\ pm_pc = "constructed"
           /\ mask' = PixelConvLayerBuild(mask_type, kernel_shape)
           /\ pm_pc' = "built"
           /\ UNCHANGED <<mask_type, kernel_shape>>

(***************************************************************************)
(* The PixelCNN model and its generation loop                              *)
(* The model follows one image of the batch (the network treats the        *)
(* entries of a batch independently) with its single channel, and one      *)
(* filter per layer: the masks are the same for every channel.  An image   *)
(* or feature map is a function on the pixel positions <<row, col>>.       *)
(***************************************************************************)

n_residual_blocks == 5

\* Height and width of the generated image (28 x 28 in the script).
rows == 2

cols == 2

\* Number of epochs of fit() the model follows (50 in the script).
MaxEpochs == 3

\* The weights of a kernel are whole numbers 1 .. MaxWeight, and 0 once masked.
MaxWeight == 2


Positions == (0..(rows - 1)) \X (0..(cols - 1))

\* The PixelConvLayers in the order the model is built: the first layer, one
\* in each residual block, and the two after the blocks.
NumPixelConv == 1 + n_residual_blocks + 2

\* mask_type and kernel_size of each: "A" and 7 for the first layer, "B" and
\* 3 inside a ResidualBlock, "B" and 1 for the last two.
MaskTypeOf(l) == IF l = 1 THEN "A" ELSE "B"

KernelSizeOf(l) == IF l = 1 THEN 7 ELSE IF l <= 1 + n_residual_blocks THEN 3 ELSE 1

KernelShapeOf(l) == <<KernelSizeOf(l), KernelSizeOf(l), 1, 1>>

\* A tensor with every value worked out, so that what reads it reads values
\* and does not work the layers before it out again.
Evaluated(t) == t @@ <<>>

MaskOf(l) == Evaluated(PixelConvLayerBuild(MaskTypeOf(l), KernelShapeOf(l)))

\* A bug: the layer convolves with its kernel as it is.
PixelConvLayerCallUnmasked(kernel, m) == kernel

\* PixelConvLayer.call, first line: self.conv.kernel.assign(kernel * mask)
PixelConvLayerCall(kernel, m) == Evaluated([x \in DOMAIN kernel |-> kernel[x] * m[x]])

\* Every layer's kernel after its call has masked it.
MaskedKernels(ks) == [l \in DOMAIN ks |-> PixelConvLayerCall(ks[l], MaskOf(l))]

ReLU(v) == IF v < 0 THEN 0 ELSE v

\* The value of a feature map at (r, c), zero in the padding.
At(img, r, c) == IF <<r, c>> \in DOMAIN img THEN img[<<r, c>>] ELSE 0

Min(a, b) == IF a < b THEN a ELSE b

\* The kernel laid with its centre on (r, c): the sum over the taps of kernel
\* row i in columns j, j - 1, ... that lie over the image.  The taps over the
\* padding multiply zeros and are left out.
RECURSIVE RowTaps(_, _, _, _, _, _, _)
RowTaps(kernel, k, img, r, c, i, j) ==
    IF j < 0 \/ c + j - (k \div 2) < 0 THEN 0
    ELSE kernel[<<i, j, 0, 0>>] * At(img, r + i - (k \div 2), c + j - (k \div 2))
         + RowTaps(kernel, k, img, r, c, i, j - 1)

\* The same sum over the kernel rows i, i - 1, ... that lie over the image.
RECURSIVE Taps(_, _, _, _, _, _)
Taps(kernel, k, img, r, c, i) ==
    IF i < 0 \/ r + i - (k \div 2) < 0 THEN 0
    ELSE RowTaps(kernel, k, img, r, c, i, Min(k - 1, (k \div 2) + cols - 1 - c))
         + Taps(kernel, k, img, r, c, i - 1)

\* layers.Conv2D with stride 1, activation "relu" and padding "same", or
\* padding "valid" for a 1 x 1 kernel: the output has the input's size.
Conv2D(kernel, k, img) ==
    Evaluated([p \in DOMAIN img |->
        ReLU(Taps(kernel, k, img, p[1], p[2], Min(k - 1, (k \div 2) + rows - 1 - p[1])))])

\* The 1 x 1 Conv2D layers conv1 and conv2 of a ResidualBlock, with unit weight.
Conv1x1(img) == Evaluated([p \in DOMAIN img |-> ReLU(img[p])])

\* ResidualBlock.call with the block's (masked) pixel_conv kernel.
ResidualBlock(kernel, inputs) ==
    LET x0 == Evaluated([p \in DOMAIN inputs |-> ReLU(inputs[p])])
        x1 == Conv1x1(x0)
        x2 == Conv2D(kernel, 3, x1)
        x3 == Conv1x1(x2)
    IN  Evaluated([p \in DOMAIN inputs |-> inputs[p] + x3[p]])

\* The layers from layer l on, applied to feature map x.
RECURSIVE Layers(_, _, _)
Layers(ks, l, x) ==
    IF l > NumPixelConv THEN x
    ELSE IF l = 1 THEN Layers(ks, 2, Conv2D(ks[1], KernelSizeOf(1), x))
    ELSE IF l <= 1 + n_residual_blocks THEN Layers(ks, l + 1, ResidualBlock(ks[l], x))
    ELSE Layers(ks, l + 1, Conv2D(ks[l], KernelSizeOf(l), x))

\* pixel_cnn.predict(pixels): every PixelConvLayer masks its kernel and
\* convolves; the last 1 x 1 convolution's sigmoid is increasing, so the
\* probability of a pixel is stood for by the value under the sigmoid.
Predict(ks, img) == Layers(Evaluated(MaskedKernels(ks)), 1, img)

\* The kernels as the initializer leaves them: no entry is zero.
InitialKernels == [l \in 1..NumPixelConv |-> [x \in KernelIndex(KernelShapeOf(l)) |-> 1]]

ZeroImage == [p \in Positions |-> 0]

PGInitState == /\ pg_pc = "compiled"
               /\ kernels = InitialKernels
               /\ epochs = 0
               /\ pixels = ZeroImage
               /\ row = 0
               /\ col = 0
               /\ probs = 0
               /\ sampled = <<>>

PGIdle == /\ pg_pc = "idle"
          /\ kernels = <<>>
          /\ epochs = 0
          /\ pixels = ZeroImage
          /\ row = 0
          /\ col = 0
          /\ probs = 0
          /\ sampled = <<>>

\* The optimizer's step on one weight: it moves to the next of the weights
\* 1 .. MaxWeight; a weight the mask has zeroed gets a gradient like any other.
OptimizerStep(w) == (w % MaxWeight) + 1

\* pixel_cnn.fit(...), one epoch: the forward pass masks the kernels, then
\* the optimizer moves every entry of every kernel, the masked ones too.
PGFit == /\ pg_pc = "compiled"
         /\ epochs < MaxEpochs
         /\ kernels' = [l \in DOMAIN kernels |->
                           [x \in DOMAIN kernels[l] |-> OptimizerStep(MaskedKernels(kernels)[l][x])]]
         /\ epochs' = epochs + 1
         /\ UNCHANGED <<pg_pc, pixels, row, col, probs, sampled>>

\* pixels = np.zeros(...); the loops start at row 0, col 0.
PGStart == /\ pg_pc = "compiled"
           /\ epochs >= 1
           /\ pixels' = ZeroImage
           /\ row' = 0
           /\ col' = 0
           /\ pg_pc' = "predict"
           /\ UNCHANGED <<kernels, epochs, probs, sampled>>

\* probs = pixel_cnn.predict(pixels)[:, row, col, channel]
PGPredict == /\ pg_pc = "predict"
             /\ kernels' = MaskedKernels(kernels)
             /\ probs' = Predict(kernels, pixels)[<<row, col>>]
             /\ pg_pc' = "sample"
             /\ UNCHANGED <<epochs, pixels, row, col, sampled>>

\* pixels[:, row, col, channel] = Bernoulli(probs=probs).sample(), then the
\* loops move on to the next column, or the next row, or end.
PGSample == /\ pg_pc = "sample"
            /\ \E bit \in {0, 1} : pixels' = [pixels EXCEPT ![<<row, col>>] = bit]
            /\ sampled' = Append(sampled, <<row, col>>)
            /\ IF col + 1 < cols
               THEN col' = col + 1 /\ row' = row /\ pg_pc' = "predict"
               ELSE IF row + 1 < rows
                    THEN col' = 0 /\ row' = row + 1 /\ pg_pc' = "predict"
                    ELSE UNCHANGED <<row, col>> /\ pg_pc' = "done"
            /\ UNCHANGED <<kernels, epochs, probs>>

(***************************************************************************)
(* make_pairs (examples/vision/siamese.py)                                 *)
(* mp_x and mp_y are the arguments x and y, functions on the indices      *)
(* 0 .. len(x) - 1; an image is the pair <<"image", k>>; pairs and labels  *)
(* are the two lists, in order.                                            *)
(***************************************************************************)

\* Largest number of images and largest class label of the inputs.
MaxImages == 3

MaxLabel == 2

Image(k) == <<"image", k>>

RECURSIVE MaxOf(_, _)
MaxOf(f, n) == IF n = 0 THEN f[0] ELSE IF f[n] > MaxOf(f, n - 1) THEN f[n] ELSE MaxOf(f, n - 1)

\* len(x)
LenOf(f) == Cardinality(DOMAIN f)

\* np.where(y == i)[0]: the indices whose label is i.
Where(labelsOf, i) == { k \in DOMAIN labelsOf : labelsOf[k] = i }

\* A bug: the loop condition lets any drawn label through.
RedrawNever(l2, l1) == FALSE

\* while label2 == label1: the condition under which randint is called again.
Redraw(l2, l1) == l2 = l1

MPInitState == /\ mp_pc = "called"
               /\ \E n \in 1..MaxImages :
                     /\ mp_x = [k \in 0..(n - 1) |-> Image(k)]
                     /\ mp_y \in [0..(n - 1) -> 0..MaxLabel]
               /\ num_classes = 0
               /\ digit_indices = <<>>
               /\ pairs = <<>>
               /\ labels = <<>>
               /\ idx1 = 0
               /\ label2 = 0

MPIdle == /\ mp_pc = "idle"
          /\ mp_x = <<>>
          /\ mp_y = <<>>
          /\ num_classes = 0
          /\ digit_indices = <<>>
          /\ pairs = <<>>
          /\ labels = <<>>
          /\ idx1 = 0
          /\ label2 = 0

\* num_classes = max(y) + 1; digit_indices = [...]; pairs = []; labels = []
MPSetup == /\ mp_pc = "called"
           /\ num_classes' = MaxOf(mp_y, LenOf(mp_y) - 1) + 1
           /\ digit_indices' = [i \in 0..MaxOf(mp_y, LenOf(mp_y) - 1) |-> Where(mp_y, i)]
           /\ pairs' = <<>>
           /\ labels' = <<>>
           /\ idx1' = 0
           /\ mp_pc' = "matching"
           /\ UNCHANGED <<mp_x, mp_y, label2>>

\* The loop's first half: add a matching example.  digit_indices[label1]
\* holds idx1 itself, so random.choice has something to choose.
MPMatching == /\ mp_pc = "matching"
              /\ idx1 < LenOf(mp_x)
              /\ LET x1 == mp_x[idx1]
                     label1 == mp_y[idx1]
                 IN  \E idx2 \in digit_indices[label1] :
                        pairs' = Append(pairs, <<x1, mp_x[idx2]>>)
              /\ labels' = Append(labels, 1)
              /\ mp_pc' = "randint"
              /\ UNCHANGED <<mp_x, mp_y, num_classes, digit_indices, idx1, label2>>

\* label2 = random.randint(0, num_classes - 1), before the while loop and in
\* each of its turns; the loop goes on while the condition holds.
MPRandint == /\ mp_pc = "randint"
             /\ label2' \in 0..(num_classes - 1)
             /\ mp_pc' = IF Redraw(label2', mp_y[idx1]) THEN "randint" ELSE "nonmatching"
             /\ UNCHANGED <<mp_x, mp_y, num_classes, digit_indices, pairs, labels, idx1>>

\* The loop's second half: add a non-matching example; random.choice raises
\* IndexError on a class that has no image.
MPNonMatching == /\ mp_pc = "nonmatching"
                 /\ IF digit_indices[label2] = {}
                    THEN /\ mp_pc' = "raised"
                         /\ UNCHANGED <<pairs, labels, idx1>>
                    ELSE /\ \E idx2 \in digit_indices[label2] :
                               pairs' = Append(pairs, <<mp_x[idx1], mp_x[idx2]>>)
                         /\ labels' = Append(labels, 0)
                         /\ idx1' = idx1 + 1
                         /\ mp_pc' = "matching"
                 /\ UNCHANGED <<mp_x, mp_y, num_classes, digit_indices, label2>>

\* return np.array(pairs), np.array(labels).astype("float32")
MPReturn == /\ mp_pc = "matching"
            /\ idx1 = LenOf(mp_x)
            /\ mp_pc' = "returned"
            /\ UNCHANGED <<mp_x, mp_y, num_classes, digit_indices, pairs, labels, idx1, label2>>

(***************************************************************************)
(* visualize (examples/vision/siamese.py)                                  *)
(* arg_to_show keeps the to_show the caller passed; to_show is the         *)
(* parameter, which the function assigns anew.  plotted lists, in order,   *)
(* the examples drawn and the grid cell of the axes each was drawn on.     *)
(* pairs holds at least as many examples as are shown.                     *)
(***************************************************************************)

\* Largest to_show and num_col arguments the model calls visualize with.
MaxToShow == 7

MaxNumCol == 4

\* num_row = to_show // num_col if to_show // num_col != 0 else 1
NumRow(ts, nc) == IF ts \div nc # 0 THEN ts \div nc ELSE 1

\* fig, axes = plt.subplots(num_row, num_col): the array of axes has its
\* dimensions of length one squeezed out.  One row gives the one-dimensional
\* array the code's comment speaks of; one column does too; one row and one
\* column give the single Axes object, which is no array.
Subplots(nr, nc) ==
    IF nr = 1 /\ nc = 1 THEN [ndim |-> 0, shape |-> <<>>]
    ELSE IF nr = 1 THEN [ndim |-> 1, shape |-> <<nc>>]
    ELSE IF nc = 1 THEN [ndim |-> 1, shape |-> <<nr>>]
    ELSE [ndim |-> 2, shape |-> <<nr, nc>>]

\* Whether axes[k] is an element: the array is one-dimensional and k in range.
Index1Ok(ax, k) == ax.ndim = 1 /\ k >= 0 /\ k < ax.shape[1]

\* Whether axes[r, c] is an element: the array is two-dimensional.
Index2Ok(ax, r, c) == ax.ndim = 2 /\ r >= 0 /\ r < ax.shape[1] /\ c >= 0 /\ c < ax.shape[2]

\* The cell of the num_row x num_col grid that element k of a
\* one-dimensional axes array is drawn in.
CellOf1(nr, nc, k) == IF nr = 1 THEN <<0, k>> ELSE <<k, 0>>

VZInitState == /\ vz_pc = "called"
               /\ arg_to_show \in 1..MaxToShow
               /\ to_show = arg_to_show
               /\ num_col \in 1..MaxNumCol
               /\ num_row = 0
               /\ axes = [ndim |-> 0, shape |-> <<>>]
               /\ vz_i = 0
               /\ plotted = <<>>

VZIdle == /\ vz_pc = "idle"
          /\ arg_to_show = 0
          /\ to_show = 0
          /\ num_col = 0
          /\ num_row = 0
          /\ axes = [ndim |-> 0, shape |-> <<>>]
          /\ vz_i = 0
          /\ plotted = <<>>

\* num_row = ...; to_show = num_row * num_col; fig, axes = plt.subplots(...)
VZGrid == /\ vz_pc = "called"
          /\ num_row' = NumRow(to_show, num_col)
          /\ to_show' = NumRow(to_show, num_col) * num_col
          /\ axes' = Subplots(NumRow(to_show, num_col), num_col)
          /\ vz_i' = 0
          /\ vz_pc' = "plotting"
          /\ UNCHANGED <<arg_to_show, num_col, plotted>>

\* One turn of for i in range(to_show): the axes are looked up, with one
\* index when num_row == 1 and with two otherwise, and the pair is drawn;
\* an index the array does not have raises (TypeError for the single Axes
\* object, IndexError for two indices into a one-dimensional array).
VZPlot == /\ vz_pc = "plotting"
          /\ vz_i < to_show
          /\ IF num_row = 1
             THEN IF Index1Ok(axes, vz_i % num_col)
                  THEN /\ plotted' = Append(plotted, [index |-> vz_i, cell |-> CellOf1(num_row, num_col, vz_i % num_col)])
                       /\ vz_i' = vz_i + 1
                       /\ vz_pc' = "plotting"
                  ELSE /\ vz_pc' = "raised"
                       /\ UNCHANGED <<plotted, vz_i>>
             ELSE IF Index2Ok(axes, vz_i \div num_col, vz_i % num_col)
                  THEN /\ plotted' = Append(plotted, [index |-> vz_i, cell |-> <<vz_i \div num_col, vz_i % num_col>>])
                       /\ vz_i' = vz_i + 1
                       /\ vz_pc' = "plotting"
                  ELSE /\ vz_pc' = "raised"
                       /\ UNCHANGED <<plotted, vz_i>>
          /\ UNCHANGED <<arg_to_show, to_show, num_col, num_row, axes>>

\* plt.tight_layout(...); plt.show()
VZShow == /\ vz_pc = "plotting"
          /\ vz_i = to_show
          /\ vz_pc' = "shown"
          /\ UNCHANGED <<arg_to_show, to_show, num_col, num_row, axes, vz_i, plotted>>

(***************************************************************************)
(* cutmix and get_box (examples/vision/cutmix.py)                          *)
(* An image is a function on the positions <<row, column>>, counted from   *)
(* 0, with whole-number pixel values.  Lambda and the label weights are    *)
(* counted in units of 1 / (IMG_SHAPE * IMG_SHAPE), which float32 holds    *)
(* exactly.  A label is the function from classes to weights; cm_label1   *)
(* and cm_label2 are cutmix's label1 and label2.                           *)
(***************************************************************************)

\* The side of the images: 32 in the script, smaller here so that every
\* lambda and every centre of the box is tried.
IMG_SHAPE == 6

\* Largest class of the one-hot labels.
MaxClass == 2

Unit == IMG_SHAPE * IMG_SHAPE

ImagePositions == (0..(IMG_SHAPE - 1)) \X (0..(IMG_SHAPE - 1))

\* The values of lambda sampled from Beta(1, 1), in units of 1 / Unit: they
\* give every cut size from 0 to IMG_SHAPE.
LambdaSamples == 0..Unit

\* Two images with no pixel value in common.
SampleImageA == [p \in ImagePositions |-> 1 + ((p[1] * IMG_SHAPE + p[2]) % 5)]

SampleImageB == [p \in ImagePositions |-> 7 + ((p[1] + 2 * p[2]) % 3)]

OneHot(c) == [k \in 0..MaxClass |-> IF k = c THEN 1 ELSE 0]

\* tf.cast(IMG_SHAPE * tf.math.sqrt(1.0 - l), tf.int32): the largest whole
\* number whose square is at most IMG_SHAPE^2 * (1 - l).
CutSize(l) == CHOOSE c \in 0..IMG_SHAPE : c * c <= Unit - l /\ (c + 1) * (c + 1) > Unit - l

\* tf.clip_by_value(v, lo, hi)
Clip(v, lo, hi) == IF v < lo THEN lo ELSE IF v > hi THEN hi ELSE v

\* get_box(l) with the centre (cx, cy) it draws: the box's offsets and its
\* height and width, a height or width of zero raised to one.
get_box(l, cx, cy) ==
    LET cut_w == CutSize(l)
        cut_h == CutSize(l)
        bbx1 == Clip(cx - cut_w \div 2, 0, IMG_SHAPE)
        bby1 == Clip(cy - cut_h \div 2, 0, IMG_SHAPE)
        bbx2 == Clip(cx + cut_w \div 2, 0, IMG_SHAPE)
        bby2 == Clip(cy + cut_h \div 2, 0, IMG_SHAPE)
        h == bby2 - bby1
        w == bbx2 - bbx1
    IN  [bbx1 |-> bbx1, bby1 |-> bby1,
         target_h |-> IF h = 0 THEN h + 1 ELSE h,
         target_w |-> IF w = 0 THEN w + 1 ELSE w]

\* tf.image.crop_to_bounding_box(image, offset_height, offset_width,
\* target_height, target_width)
crop_to_bounding_box(img, oy, ox, th, tw) ==
    [p \in (0..(th - 1)) \X (0..(tw - 1)) |-> img[<<oy + p[1], ox + p[2]>>]]

\* tf.image.pad_to_bounding_box(image, offset_height, offset_width,
\* target_height, target_width): zeros around the image.
pad_to_bounding_box(img, oy, ox, th, tw) ==
    [p \in (0..(th - 1)) \X (0..(tw - 1)) |->
        IF <<p[1] - oy, p[2] - ox>> \in DOMAIN img THEN img[<<p[1] - oy, p[2] - ox>>] ELSE 0]

\* A bug: the box is taken for a square of side target_w.
AdjustLambdaSquare(tw, th) == Unit - tw * tw

\* l = 1 - (target_w * target_h) / (IMG_SHAPE * IMG_SHAPE), in units of 1 / Unit.
AdjustLambda(tw, th) == Unit - tw * th

\* The image cutmix returns.
CutmixImage(im1, im2, b) ==
    LET crop2 == crop_to_bounding_box(im2, b.bby1, b.bbx1, b.target_h, b.target_w)
        padded2 == pad_to_bounding_box(crop2, b.bby1, b.bbx1, IMG_SHAPE, IMG_SHAPE) @@ <<>>
        crop1 == crop_to_bounding_box(im1, b.bby1, b.bbx1, b.target_h, b.target_w)
        img1 == pad_to_bounding_box(crop1, b.bby1, b.bbx1, IMG_SHAPE, IMG_SHAPE) @@ <<>>
        rest1 == [p \in ImagePositions |-> im1[p] - img1[p]]
    IN  [p \in ImagePositions |-> rest1[p] + padded2[p]]

\* label = l * label1 + (1 - l) * label2, in units of 1 / Unit.
CutmixLabel(l, lab1, lab2) == [k \in DOMAIN lab1 |-> l * lab1[k] + (Unit - l) * lab2[k]]

NoBox == [bbx1 |-> 0, bby1 |-> 0, target_h |-> 0, target_w |-> 0]

CMInitState == /\ cm_pc = "called"
               /\ \E ab \in {<<SampleImageA, SampleImageB>>, <<SampleImageB, SampleImageA>>} :
                     image1 = ab[1] /\ image2 = ab[2]
               /\ \E c1 \in 0..MaxClass, c2 \in 0..MaxClass :
                     cm_label1 = OneHot(c1) /\ cm_label2 = OneHot(c2)
               /\ lam = 0
               /\ box = NoBox
               /\ image = <<>>
               /\ label = <<>>

CMIdle == /\ cm_pc = "idle"
          /\ image1 = <<>>
          /\ image2 = <<>>
          /\ cm_label1 = <<>>
          /\ cm_label2 = <<>>
          /\ lam = 0
          /\ box = NoBox
          /\ image = <<>>
          /\ label = <<>>

\* l = dist.sample(1)[0][0]
CMSample == /\ cm_pc = "called"
            /\ lam' \in LambdaSamples
            /\ cm_pc' = "sampled"
            /\ UNCHANGED <<image1, image2, cm_label1, cm_label2, box, image, label>>

\* bbx1, bby1, target_h, target_w = get_box(l), which draws cx and cy from
\* 0 .. IMG_SHAPE - 1.
CMGetBox == /\ cm_pc = "sampled"
            /\ \E cx \in 0..(IMG_SHAPE - 1), cy \in 0..(IMG_SHAPE - 1) :
                  box' = get_box(lam, cx, cy)
            /\ cm_pc' = "boxed"
            /\ UNCHANGED <<image1, image2, cm_label1, cm_label2, lam, image, label>>

\* The rest of cutmix: the two crops and pads, the sum, lambda adjusted to
\* the box, the labels combined.
CMMix == /\ cm_pc = "boxed"
         /\ image' = CutmixImage(image1, image2, box)
         /\ lam' = AdjustLambda(box.target_w, box.target_h)
         /\ label' = CutmixLabel(AdjustLambda(box.target_w, box.target_h), cm_label1, cm_label2)
         /\ cm_pc' = "returned"
         /\ UNCHANGED <<image1, image2, cm_label1, cm_label2, box>>

(***************************************************************************)
(* unify_text_length (examples/nlp/multi_label_classification.py)          *)
(* A string is the sequence of its characters, a string tensor of rank one *)
(* a sequence of strings.  ut_text and ut_label are the function's         *)
(* arguments, ut_returned the pair it returns.                             *)
(***************************************************************************)

\* The maximum sequence length: 150 in the script, smaller here so that
\* texts on both sides of it are tried.
max_seqlen == 3

\* Longest abstract, in characters.
MaxTextLen == 6

\* Number of terms of the binarized label.
MaxTerms == 2

padding_token == <<"<", "p", "a", "d", ">">>

\* The abstracts: every text, not empty, of the letter a and the space, so
\* with words that are empty where spaces meet or stand at an end.
Abstracts == UNION { [1..n -> {"a", " "}] : n \in 1..MaxTextLen }

BinarizedLabels == [1..MaxTerms -> {0, 1}]

\* tf.strings.split(text, sep): as Python's str.split(sep), every separator
\* ends a word, empty or not.
RECURSIVE strings_split(_, _)
strings_split(t, sep) ==
    IF \E i \in 1..Len(t) : t[i] = sep
    THEN LET i == CHOOSE j \in 1..Len(t) : t[j] = sep /\ \A k \in 1..(j - 1) : t[k] # sep
         IN  <<SubSeq(t, 1, i - 1)>> \o strings_split(SubSeq(t, i + 1, Len(t)), sep)
    ELSE <<t>>

\* tf.strings.reduce_join(inputs, separator=separator)
RECURSIVE reduce_join(_, _)
reduce_join(ws, separator) ==
    IF ws = <<>> THEN <<>>
    ELSE IF Len(ws) = 1 THEN ws[1]
    ELSE ws[1] \o separator \o reduce_join(Tail(ws), separator)

\* tf.pad(tensor, [[0, amount]], constant_values=value) of a tensor of rank one
pad(tensor, amount, value) == tensor \o [k \in 1..amount |-> value]

\* word_splits[:n]
FirstWords(ws, n) == SubSeq(ws, 1, IF Len(ws) < n THEN Len(ws) ELSE n)

UTInitState == /\ ut_pc = "called"
               /\ ut_text \in Abstracts
               /\ ut_label \in BinarizedLabels
               /\ word_splits = <<>>
               /\ sequence_length = 0
               /\ padding_amount = 0
               /\ unified_text = <<>>
               /\ ut_returned = <<>>

UTIdle == /\ ut_pc = "idle"
          /\ ut_text = <<>>
          /\ ut_label = <<>>
          /\ word_splits = <<>>
          /\ sequence_length = 0
          /\ padding_amount = 0
          /\ unified_text = <<>>
          /\ ut_returned = <<>>

\* Split the abstract, calculate its length and the padding amount.
UTSplit == /\ ut_pc = "called"
           /\ word_splits' = strings_split(ut_text, " ")
           /\ sequence_length' = Len(strings_split(ut_text, " "))
           /\ padding_amount' = max_seqlen - Len(strings_split(ut_text, " "))
           /\ ut_pc' = "split"
           /\ UNCHANGED <<ut_text, ut_label, unified_text, ut_returned>>

\* if padding_amount > 0: pad [text] and join with the separator "".
UTPad == /\ ut_pc = "split"
         /\ padding_amount > 0
         /\ unified_text' = reduce_join(pad(<<ut_text>>, padding_amount, padding_token), <<>>)
         /\ ut_pc' = "unified"
         /\ UNCHANGED <<ut_text, ut_label, word_splits, sequence_length, padding_amount, ut_returned>>

\* else: join the first max_seqlen words with the separator " ".
UTTruncate == /\ ut_pc = "split"
              /\ ~(padding_amount > 0)
              /\ unified_text' = reduce_join(FirstWords(word_splits, max_seqlen), <<" ">>)
              /\ ut_pc' = "unified"
              /\ UNCHANGED <<ut_text, ut_label, word_splits, sequence_length, padding_amount, ut_returned>>

\* return tf.expand_dims(unified_text, -1), label
UTReturn == /\ ut_pc = "unified"
            /\ ut_returned' = << <<unified_text>>, ut_label >>
            /\ ut_pc' = "returned"
            /\ UNCHANGED <<ut_text, ut_label, word_splits, sequence_length, padding_amount, unified_text>>

(***************************************************************************)
(* ContrastiveModel (examples/vision/semisupervised_simclr.py)             *)
(* sc_weights holds the value of every weight of the encoder, the          *)
(* projection head and the linear probe, a weight named by its model, its  *)
(* layer and its role.  A gradient is a whole number per weight it is      *)
(* taken for; what an optimizer makes of it is a new value of the weight.  *)
(* The two optimizers count the gradients they applied, the two metrics    *)
(* the calls of update_state since they were reset.  sc_before is          *)
(* sc_weights before the latest update or test step, sc_trace the updates  *)
(* of the train step under way, or the test step.                          *)
(***************************************************************************)

\* Train steps of an epoch: 200 in the script.
steps_per_epoch == 2

\* Epochs of the pretraining, num_epochs // 2: 30 in the script.
PretrainingEpochs == 2

\* Batches of the validation data.
ValidationSteps == 2

\* Largest gradient.
MaxGradient == 2

\* Values a weight takes.
WeightModulus == 4

\* model.trainable_weights of the three models ContrastiveModel creates.
TrainableWeights(model) ==
    IF model = "encoder"
    THEN {"encoder"} \X {"conv2d", "conv2d_1", "conv2d_2", "conv2d_3", "dense"} \X {"kernel", "bias"}
    ELSE IF model = "projection_head"
    THEN {"projection_head"} \X {"dense_1", "dense_2"} \X {"kernel", "bias"}
    ELSE {"linear_probe"} \X {"dense_3"} \X {"kernel", "bias"}

AllWeights == TrainableWeights("encoder") \cup TrainableWeights("projection_head")
                  \cup TrainableWeights("linear_probe")

\* The weights the contrastive gradients are taken for and applied to.
ContrastiveVariables == TrainableWeights("encoder") \cup TrainableWeights("projection_head")

\* A bug: the encoder is trained by the probe loss too.
ProbeVariablesUnfrozen == TrainableWeights("encoder") \cup TrainableWeights("linear_probe")

\* The weights the probe gradients are taken for and applied to.
ProbeVariables == TrainableWeights("linear_probe")

\* tape.gradient(loss, variables): one gradient for each of the variables.
Gradient(variables, g) == [v \in variables |-> g]

\* optimizer.apply_gradients(zip(gradients, variables)): the variables of
\* the pairs change, no other.
apply_gradients(weights, gradients) ==
    [v \in DOMAIN weights |->
        IF v \in DOMAIN gradients THEN (weights[v] + gradients[v]) % WeightModulus
        ELSE weights[v]]

SCInitState == /\ sc_pc = "compiled"
               /\ \E w \in 0..(WeightModulus - 1) : sc_weights = [v \in AllWeights |-> w]
               /\ contrastive_iterations = 0
               /\ probe_iterations = 0
               /\ contrastive_accuracy = 0
               /\ probe_accuracy = 0
               /\ sc_epoch = 0
               /\ sc_step = 0
               /\ sc_val = 0
               /\ sc_before = <<>>
               /\ sc_trace = <<>>

SCIdle == /\ sc_pc = "idle"
          /\ sc_weights = <<>>
          /\ contrastive_iterations = 0
          /\ probe_iterations = 0
          /\ contrastive_accuracy = 0
          /\ probe_accuracy = 0
          /\ sc_epoch = 0
          /\ sc_step = 0
          /\ sc_val = 0
          /\ sc_before = <<>>
          /\ sc_trace = <<>>

\* fit begins an epoch: reset_metrics.
SCEpochBegin == /\ sc_pc \in {"compiled", "epoch_end"}
                /\ sc_epoch < PretrainingEpochs
                /\ contrastive_accuracy' = 0
                /\ probe_accuracy' = 0
                /\ sc_step' = 0
                /\ sc_pc' = "train"
                /\ UNCHANGED <<sc_weights, contrastive_iterations, probe_iterations, sc_epoch,
                               sc_val, sc_before, sc_trace>>

\* train_step, first half: the contrastive loss, which updates the
\* contrastive accuracy twice, its gradients and their application.
SCContrastiveUpdate ==
    /\ sc_pc = "train"
    /\ sc_step < steps_per_epoch
    /\ \E g \in 0..MaxGradient :
          sc_weights' = apply_gradients(sc_weights, Gradient(ContrastiveVariables, g))
    /\ contrastive_iterations' = contrastive_iterations + 1
    /\ contrastive_accuracy' = contrastive_accuracy + 2
    /\ sc_before' = sc_weights
    /\ sc_trace' = <<"contrastive">>
    /\ sc_pc' = "contrastive_done"
    /\ UNCHANGED <<probe_iterations, probe_accuracy, sc_epoch, sc_step, sc_val>>

\* train_step, second half: the probe loss, its gradients and their
\* application, the probe accuracy.
SCProbeUpdate ==
    /\ sc_pc = "contrastive_done"
    /\ \E g \in 0..MaxGradient :
          sc_weights' = apply_gradients(sc_weights, Gradient(ProbeVariables, g))
    /\ probe_iterations' = probe_iterations + 1
    /\ probe_accuracy' = probe_accuracy + 1
    /\ sc_before' = sc_weights
    /\ sc_trace' = Append(sc_trace, "probe")
    /\ sc_step' = sc_step + 1
    /\ sc_pc' = "train"
    /\ UNCHANGED <<contrastive_iterations, contrastive_accuracy, sc_epoch, sc_val>>

\* fit begins the validation of the epoch: reset_metrics.
SCValidationBegin == /\ sc_pc = "train"
                     /\ sc_step = steps_per_epoch
                     /\ contrastive_accuracy' = 0
                     /\ probe_accuracy' = 0
                     /\ sc_val' = 0
                     /\ sc_pc' = "test"
                     /\ UNCHANGED <<sc_weights, contrastive_iterations, probe_iterations,
                                    sc_epoch, sc_step, sc_before, sc_trace>>

\* test_step: the probe loss and the probe accuracy, no gradient.
SCTestStep == /\ sc_pc = "test"
              /\ sc_val < ValidationSteps
              /\ probe_accuracy' = probe_accuracy + 1
              /\ sc_before' = sc_weights
              /\ sc_trace' = <<"test">>
              /\ sc_val' = sc_val + 1
              /\ UNCHANGED <<sc_pc, sc_weights, contrastive_iterations, probe_iterations,
                             contrastive_accuracy, sc_epoch, sc_step>>

\* The epoch ends.
SCEpochEnd == /\ sc_pc = "test"
              /\ sc_val = ValidationSteps
              /\ sc_epoch' = sc_epoch + 1
              /\ sc_pc' = "epoch_end"
              /\ UNCHANGED <<sc_weights, contrastive_iterations, probe_iterations,
                             contrastive_accuracy, probe_accuracy, sc_step, sc_val,
                             sc_before, sc_trace>>

(***************************************************************************)
(* CaiT (examples/vision/cait.py)                                          *)
(* One image is followed through CaiT.call at inference.  A tensor of      *)
(* embeddings is the sequence of its tokens, a token one number modulo     *)
(* EmbedModulus standing for its projection_dim channels; the attention    *)
(* scores are a function on the pairs <<query, key>> of token positions.   *)
(* The weights of a block are told apart by the block's number.  ct_x and  *)
(* cls_tokens are the locals x and cls_tokens of call; ct_log lists, for   *)
(* every block called, what it was given and what it returned.             *)
(***************************************************************************)

\* Most patches of an image: 196 in the script.
MaxPatches == 3

\* Values of a token.
EmbedModulus == 3

\* SA+FFN blocks: 24 in the script.
sa_ffn_layers == 2

\* CA+FFN blocks.
ca_ffn_layers == 2

Embeddings == 0..(EmbedModulus - 1)

RECURSIVE SumTo(_, _)
SumTo(f, n) == IF n = 0 THEN 0 ELSE f[n] + SumTo(f, n - 1)

\* keras.layers.Dense with the weights w, applied to every token.
Dense(ts, w) == [i \in DOMAIN ts |-> (2 * ts[i] + w) % EmbedModulus]

\* keras.layers.LayerNormalization: every token normalised by itself.
LayerNormalization(ts) == [i \in DOMAIN ts |-> (ts[i] + 1) % EmbedModulus]

\* LayerScale.call: x * self.gamma
LayerScale(ts) == [i \in DOMAIN ts |-> (2 * ts[i]) % EmbedModulus]

\* tf.nn.gelu, on every token.
Gelu(ts) == [i \in DOMAIN ts |-> (ts[i] * ts[i]) % EmbedModulus]

\* mlp: the two dense layers, the first with gelu, every token by itself;
\* dropout does nothing at inference.
mlp(ts) == Dense(Gelu(Dense(ts, 1)), 2)

\* keras.layers.Add of two tensors of one shape.
Add(a, b) == [i \in DOMAIN a |-> (a[i] + b[i]) % EmbedModulus]

\* The attention of the queries q for the keys k with values v: the scores
\* and the tokens they give, one for each query.
Attend(q, k, v) ==
    LET attn == [qk \in (DOMAIN q) \X (DOMAIN k) |-> (q[qk[1]] * k[qk[2]]) % EmbedModulus]
    IN  [attn |-> attn,
         x |-> [i \in DOMAIN q |->
                   SumTo([j \in DOMAIN k |-> attn[<<i, j>>] * v[j]], Len(k)) % EmbedModulus]]

\* A bug: every token is a query.
ClassAttnAllQueries(x, w) ==
    LET a == Attend(Dense(x, w), Dense(x, w + 1), Dense(x, w + 2))
    IN  [x_cls |-> Dense(a.x, w), attn |-> a.attn]

\* ClassAttn.call: the query is x[:, 0], keys and values are all of x.
ClassAttn(x, w) ==
    LET a == Attend(Dense(<<x[1]>>, w), Dense(x, w + 1), Dense(x, w + 2))
    IN  [x_cls |-> Dense(a.x, w), attn |-> a.attn]

\* TalkingHeadAttn.call: queries, keys and values are all of x.
TalkingHeadAttn(x, w) ==
    LET a == Attend(Dense(x, w), Dense(x, w + 1), Dense(x, w + 2))
    IN  [x |-> Dense(a.x, w), attn |-> a.attn]

\* The model LayerScaleBlockClassAttn builds, called with [x, x_cls].
LayerScaleBlockClassAttn(x, x_cls, w) ==
    LET inputs == x_cls \o x
        x1 == LayerNormalization(inputs)
        ca == ClassAttn(x1, w)
        attn_output == LayerScale(ca.x_cls)
        x2 == Add(x_cls, attn_output)
        x3 == LayerNormalization(x2)
        x4 == LayerScale(mlp(x3))
    IN  [outputs |-> Add(x2, x4), attn_scores |-> ca.attn]

\* The model LayerScaleBlock builds, called with encoded_patches.
LayerScaleBlock(encoded_patches, w) ==
    LET x1 == LayerNormalization(encoded_patches)
        sa == TalkingHeadAttn(x1, w)
        attn_output == LayerScale(sa.x)
        x2 == Add(encoded_patches, attn_output)
        x3 == LayerNormalization(x2)
        x4 == LayerScale(mlp(x3))
    IN  [outputs |-> Add(x2, x4), attn_scores |-> sa.attn]

\* self.pos_embed
pos_embed(n) == [i \in 1..n |-> i % EmbedModulus]

CTInitState == /\ ct_pc = "called"
               /\ ct_inputs \in UNION { [1..n -> Embeddings] : n \in 1..MaxPatches }
               /\ cls_token \in Embeddings
               /\ ct_x = <<>>
               /\ cls_tokens = <<>>
               /\ sa_ffn_attn = <<>>
               /\ ca_ffn_attn = <<>>
               /\ ct_blk = 0
               /\ ct_log = <<>>
               /\ ct_result = <<>>

CTIdle == /\ ct_pc = "idle"
          /\ ct_inputs = <<>>
          /\ cls_token = 0
          /\ ct_x = <<>>
          /\ cls_tokens = <<>>
          /\ sa_ffn_attn = <<>>
          /\ ca_ffn_attn = <<>>
          /\ ct_blk = 0
          /\ ct_log = <<>>
          /\ ct_result = <<>>

\* x = self.projection(x); x = x + self.pos_embed; x = self.pos_drop(x)
CTProject == /\ ct_pc = "called"
             /\ ct_x' = Add(Dense(ct_inputs, 0), pos_embed(Len(ct_inputs)))
             /\ ct_blk' = 0
             /\ ct_pc' = "sa"
             /\ UNCHANGED <<ct_inputs, cls_token, cls_tokens, sa_ffn_attn, ca_ffn_attn,
                            ct_log, ct_result>>

\* for blk in self.blocks: x, attn_scores = blk(x)
CTSelfAttnBlock ==
    /\ ct_pc = "sa"
    /\ ct_blk < sa_ffn_layers
    /\ LET r == LayerScaleBlock(ct_x, ct_blk)
       IN  /\ ct_x' = r.outputs
           /\ sa_ffn_attn' = Append(sa_ffn_attn, r.attn_scores)
           /\ ct_log' = Append(ct_log, [kind |-> "sa", x |-> ct_x, x_cls |-> <<>>,
                                         outputs |-> r.outputs, attn_scores |-> r.attn_scores])
    /\ ct_blk' = ct_blk + 1
    /\ UNCHANGED <<ct_pc, ct_inputs, cls_token, cls_tokens, ca_ffn_attn, ct_result>>

\* cls_tokens = tf.tile(self.cls_token, (tf.shape(x)[0], 1, 1))
CTTile == /\ ct_pc = "sa"
          /\ ct_blk = sa_ffn_layers
          /\ cls_tokens' = <<cls_token>>
          /\ ct_blk' = 0
          /\ ct_pc' = "ca"
          /\ UNCHANGED <<ct_inputs, cls_token, ct_x, sa_ffn_attn, ca_ffn_attn, ct_log, ct_result>>

\* for blk in self.blocks_token_only: cls_tokens, attn_scores = blk([x, cls_tokens])
CTClassAttnBlock ==
    /\ ct_pc = "ca"
    /\ ct_blk < ca_ffn_layers
    /\ LET r == LayerScaleBlockClassAttn(ct_x, cls_tokens, sa_ffn_layers + ct_blk)
       IN  /\ cls_tokens' = r.outputs
           /\ ca_ffn_attn' = Append(ca_ffn_attn, r.attn_scores)
           /\ ct_log' = Append(ct_log, [kind |-> "ca", x |-> ct_x, x_cls |-> cls_tokens,
                                         outputs |-> r.outputs, attn_scores |-> r.attn_scores])
    /\ ct_blk' = ct_blk + 1
    /\ UNCHANGED <<ct_pc, ct_inputs, cls_token, ct_x, sa_ffn_attn, ct_result>>

\* x = tf.concat([cls_tokens, x], axis=1)
CTConcat == /\ ct_pc = "ca"
            /\ ct_blk = ca_ffn_layers
            /\ ct_x' = cls_tokens \o ct_x
            /\ ct_pc' = "concatenated"
            /\ UNCHANGED <<ct_inputs, cls_token, cls_tokens, sa_ffn_attn, ca_ffn_attn, ct_blk,
                           ct_log, ct_result>>

\* x = self.norm(x); global_pool is "token": x[:, 0]; the head and the
\* two dictionaries of attention scores are returned.
CTHead == /\ ct_pc = "concatenated"
          /\ ct_result' = [logits |-> Dense(<<LayerNormalization(ct_x)[1]>>, 0),
                           sa_ffn_attn |-> sa_ffn_attn, ca_ffn_attn |-> ca_ffn_attn]
          /\ ct_pc' = "returned"
          /\ UNCHANGED <<ct_inputs, cls_token, ct_x, cls_tokens, sa_ffn_attn, ca_ffn_attn,
                         ct_blk, ct_log>>

(***************************************************************************)
(* The order of compile, fit and evaluate in three scripts                 *)
(* (examples/generative/pixelcnn.py, examples/vision/cutmix.py,            *)
(* guides/keras_cv/object_detection_keras_cv.py)                           *)
(* A script is the sequence of its statements that construct a model or    *)
(* call save_weights, load_weights, compile, fit or evaluate on one, each  *)
(* with the model object it acts on: a name that is bound again names a    *)
(* new object, told apart by the line that constructs it.  so_models holds *)
(* for every object constructed whether it is compiled and how often it    *)
(* was fit and evaluated; so_log lists the calls made.                     *)
(***************************************************************************)

\* Largest mean average precision an evaluation reports, standing for 1.0.
MaxMaP == 2

Stmt(op, model, line) == [op |-> op, model |-> model, line |-> line]

PixelcnnScript ==
    << Stmt("construct", "pixel_cnn", 123),
       Stmt("compile", "pixel_cnn", 125),
       Stmt("fit", "pixel_cnn", 128) >>

\* A bug: the models are evaluated before they are trained.
CutmixScriptEvaluateFirst ==
    << Stmt("construct", "initial_model", 342),
       Stmt("save_weights", "initial_model", 343),
       Stmt("construct", "model_349", 349),
       Stmt("load_weights", "model_349", 350),
       Stmt("compile", "model_349", 351),
       Stmt("evaluate", "model_349", 354),
       Stmt("fit", "model_349", 352),
       Stmt("construct", "model_361", 361),
       Stmt("load_weights", "model_361", 362),
       Stmt("compile", "model_361", 363),
       Stmt("evaluate", "model_361", 366),
       Stmt("fit", "model_361", 364) >>

CutmixScript ==
    << Stmt("construct", "initial_model", 342),
       Stmt("save_weights", "initial_model", 343),
       Stmt("construct", "model_349", 349),
       Stmt("load_weights", "model_349", 350),
       Stmt("compile", "model_349", 351),
       Stmt("fit", "model_349", 352),
       Stmt("evaluate", "model_349", 354),
       Stmt("construct", "model_361", 361),
       Stmt("load_weights", "model_361", 362),
       Stmt("compile", "model_361", 363),
       Stmt("fit", "model_361", 364),
       Stmt("evaluate", "model_361", 366) >>

\* The grid search of the prediction decoders is the statement
\* "grid_search": it evaluates the model once for every pair of thresholds.
ObjectDetectionScript ==
    << Stmt("construct", "model_70", 70),
       Stmt("construct", "model_463", 463),
       Stmt("compile", "model_463", 530),
       Stmt("evaluate", "model_463", 536),
       Stmt("compile", "model_463", 590),
       Stmt("fit", "model_463", 605),
       Stmt("construct", "model_633", 633),
       Stmt("grid_search", "model_633", 691) >>

Script(name) == IF name = "pixelcnn" THEN PixelcnnScript
                ELSE IF name = "cutmix" THEN CutmixScript
                ELSE ObjectDetectionScript

\* In hundredths.
iou_thresholds == <<35, 50, 65>>

confidence_thresholds == <<50, 75, 90>>

GridSize == Len(iou_thresholds) * Len(confidence_thresholds)

\* The iou_threshold of iteration k of the nested loops, k from 0.
IouThresholdOf(k) == iou_thresholds[(k \div Len(confidence_thresholds)) + 1]

NewModel == [compiled |-> FALSE, fits |-> 0, evaluations |-> 0]

Current == Script(so_script)[so_pc]

Running == so_status = "running" /\ so_pc <= Len(Script(so_script))

Logged(stmt) == Append(so_log, [op |-> stmt.op, model |-> stmt.model])

SOInitState == /\ so_script \in {"pixelcnn", "cutmix", "object_detection"}
               /\ so_pc = 1
               /\ so_status = "running"
               /\ so_models = <<>>
               /\ so_log = <<>>
               /\ so_iter = 0
               /\ best_decoder = None
               /\ score_to_beat = 0
               /\ worst_score = MaxMaP

SOIdle == /\ so_script = "none"
          /\ so_pc = 0
          /\ so_status = "idle"
          /\ so_models = <<>>
          /\ so_log = <<>>
          /\ so_iter = 0
          /\ best_decoder = None
          /\ score_to_beat = 0
          /\ worst_score = 0

\* A model is constructed.
SOConstruct == /\ Running
               /\ Current.op = "construct"
               /\ so_models' = (Current.model :> NewModel) @@ so_models
               /\ so_log' = Logged(Current)
               /\ so_pc' = so_pc + 1
               /\ UNCHANGED <<so_script, so_status, so_iter, best_decoder, score_to_beat,
                              worst_score>>

\* save_weights or load_weights: the model is as compiled and as fit as
\* it was.
SOWeights == /\ Running
             /\ Current.op \in {"save_weights", "load_weights"}
             /\ so_log' = Logged(Current)
             /\ so_pc' = so_pc + 1
             /\ UNCHANGED <<so_script, so_status, so_models, so_iter, best_decoder,
                            score_to_beat, worst_score>>

\* model.compile(...)
SOCompile == /\ Running
             /\ Current.op = "compile"
             /\ so_models' = [so_models EXCEPT ![Current.model].compiled = TRUE]
             /\ so_log' = Logged(Current)
             /\ so_pc' = so_pc + 1
             /\ UNCHANGED <<so_script, so_status, so_iter, best_decoder, score_to_beat,
                            worst_score>>

\* model.fit(...): Keras raises a RuntimeError for a model not compiled.
SOFit == /\ Running
         /\ Current.op = "fit"
         /\ so_log' = Logged(Current)
         /\ IF so_models[Current.model].compiled
            THEN /\ so_models' = [so_models EXCEPT ![Current.model].fits = @ + 1]
                 /\ so_pc' = so_pc + 1
                 /\ UNCHANGED so_status
            ELSE /\ so_status' = "raised"
                 /\ UNCHANGED <<so_models, so_pc>>
         /\ UNCHANGED <<so_script, so_iter, best_decoder, score_to_beat, worst_score>>

\* What model.evaluate(...) does to the models and the status: it
\* evaluates a compiled model; for a model that no statement of the script
\* compiled it evaluates or raises, as the preset has or has not compiled it.
EvaluateCall(model) ==
    \/ /\ so_models' = [so_models EXCEPT ![model].evaluations = @ + 1]
       /\ UNCHANGED so_status
    \/ /\ ~so_models[model].compiled
       /\ so_status' = "raised"
       /\ UNCHANGED so_models

\* model.evaluate(...)
SOEvaluate == /\ Running
              /\ Current.op = "evaluate"
              /\ so_log' = Logged(Current)
              /\ EvaluateCall(Current.model)
              /\ so_pc' = IF so_status' = "raised" THEN so_pc ELSE so_pc + 1
              /\ UNCHANGED <<so_script, so_iter, best_decoder, score_to_beat, worst_score>>

\* One pass of the grid search: the decoder is set, the model evaluated,
\* and the best decoder and the two scores are kept.
SOGridSearch ==
    /\ Running
    /\ Current.op = "grid_search"
    /\ so_iter < GridSize
    /\ so_log' = Append(so_log, [op |-> "evaluate", model |-> Current.model])
    /\ EvaluateCall(Current.model)
    /\ IF so_status' = "raised"
       THEN UNCHANGED <<so_iter, so_pc, best_decoder, score_to_beat, worst_score>>
       ELSE /\ \E MaP \in 0..MaxMaP :
                  /\ best_decoder' = IF MaP > score_to_beat THEN <<IouThresholdOf(so_iter)>>
                                     ELSE best_decoder
                  /\ score_to_beat' = IF MaP > score_to_beat THEN MaP ELSE score_to_beat
                  /\ worst_score' = IF MaP < worst_score THEN MaP ELSE worst_score
            /\ so_iter' = so_iter + 1
            /\ so_pc' = IF so_iter + 1 = GridSize THEN so_pc + 1 ELSE so_pc
    /\ UNCHANGED so_script

(***************************************************************************)
(* Specifications: one per script.  A script's specification starts the    *)
(* script's own variables and leaves the other scripts idle.               *)
(***************************************************************************)

vars == <<varsCV, varsCA, varsCB, varsCC, varsPM, varsPG, varsMP, varsVZ, varsCM, varsUT, varsSC, varsCT, varsSO>>

OthersCV == <<varsCA, varsCB, varsCC, varsPM, varsPG, varsMP, varsVZ, varsCM, varsUT, varsSC, varsCT, varsSO>>

InitVars == CVInitState /\ CAIdle /\ CBIdle /\ CCIdle /\ PMIdle /\ PGIdle /\ MPIdle /\ VZIdle /\ CMIdle /\ UTIdle /\ SCIdle /\ CTIdle /\ SOIdle

NextVars == \/ CVCompile /\ UNCHANGED OthersCV
            \/ CVFit /\ UNCHANGED OthersCV
            \/ CVSave /\ UNCHANGED OthersCV
            \/ CVLoad /\ UNCHANGED OthersCV

SpecVars == InitVars /\ [][NextVars]_vars

OthersCA == <<varsCV, varsCB, varsCC, varsPM, varsPG, varsMP, varsVZ, varsCM, varsUT, varsSC, varsCT, varsSO>>

InitAssets == CAInitState /\ CVIdle /\ CBIdle /\ CCIdle /\ PMIdle /\ PGIdle /\ MPIdle /\ VZIdle /\ CMIdle /\ UTIdle /\ SCIdle /\ CTIdle /\ SOIdle

NextAssets == \/ CABuild /\ UNCHANGED OthersCA
              \/ CASave /\ UNCHANGED OthersCA
              \/ CALoad /\ UNCHANGED OthersCA

SpecAssets == InitAssets /\ [][NextAssets]_vars

OthersCB == <<varsCV, varsCA, varsCC, varsPM, varsPG, varsMP, varsVZ, varsCM, varsUT, varsSC, varsCT, varsSO>>

InitBuild == CBInitState /\ CVIdle /\ CAIdle /\ CCIdle /\ PMIdle /\ PGIdle /\ MPIdle /\ VZIdle /\ CMIdle /\ UTIdle /\ SCIdle /\ CTIdle /\ SOIdle

NextBuild == \/ CBConstruct /\ UNCHANGED OthersCB
             \/ CBBuild /\ UNCHANGED OthersCB
             \/ CBCall /\ UNCHANGED OthersCB
             \/ CBSave /\ UNCHANGED OthersCB
             \/ CBLoad /\ UNCHANGED OthersCB

SpecBuild == InitBuild /\ [][NextBuild]_vars

OthersCC == <<varsCV, varsCA, varsCB, varsPM, varsPG, varsMP, varsVZ, varsCM, varsUT, varsSC, varsCT, varsSO>>

InitCompile == CCInitState /\ CVIdle /\ CAIdle /\ CBIdle /\ PMIdle /\ PGIdle /\ MPIdle /\ VZIdle /\ CMIdle /\ UTIdle /\ SCIdle /\ CTIdle /\ SOIdle

NextCompile == \/ CCCompile /\ UNCHANGED OthersCC
               \/ CCFit /\ UNCHANGED OthersCC
               \/ CCSave /\ UNCHANGED OthersCC
               \/ CCLoad /\ UNCHANGED OthersCC

SpecCompile == InitCompile /\ [][NextCompile]_vars

OthersPM == <<varsCV, varsCA, varsCB, varsCC, varsPG, varsMP, varsVZ, varsCM, varsUT, varsSC, varsCT, varsSO>>

InitMask == PMInitState /\ CVIdle /\ CAIdle /\ CBIdle /\ CCIdle /\ PGIdle /\ MPIdle /\ VZIdle /\ CMIdle /\ UTIdle /\ SCIdle /\ CTIdle /\ SOIdle

NextMask == \/ PMConstruct /\ UNCHANGED OthersPM
            \/ PMBuild /\ UNCHANGED OthersPM

SpecMask == InitMask /\ [][NextMask]_vars

OthersPG == <<varsCV, varsCA, varsCB, varsCC, varsPM, varsMP, varsVZ, varsCM, varsUT, varsSC, varsCT, varsSO>>

InitGen == PGInitState /\ CVIdle /\ CAIdle /\ CBIdle /\ CCIdle /\ PMIdle /\ MPIdle /\ VZIdle /\ CMIdle /\ UTIdle /\ SCIdle /\ CTIdle /\ SOIdle

NextGen == \/ PGFit /\ UNCHANGED OthersPG
           \/ PGStart /\ UNCHANGED OthersPG
           \/ PGPredict /\ UNCHANGED OthersPG
           \/ PGSample /\ UNCHANGED OthersPG

SpecGen == InitGen /\ [][NextGen]_vars

OthersMP == <<varsCV, varsCA, varsCB, varsCC, varsPM, varsPG, varsVZ, varsCM, varsUT, varsSC, varsCT, varsSO>>

InitPairs == MPInitState /\ CVIdle /\ CAIdle /\ CBIdle /\ CCIdle /\ PMIdle /\ PGIdle /\ VZIdle /\ CMIdle /\ UTIdle /\ SCIdle /\ CTIdle /\ SOIdle

NextPairs == \/ MPSetup /\ UNCHANGED OthersMP
             \/ MPMatching /\ UNCHANGED OthersMP
             \/ MPRandint /\ UNCHANGED OthersMP
             \/ MPNonMatching /\ UNCHANGED OthersMP
             \/ MPReturn /\ UNCHANGED OthersMP

SpecPairs == InitPairs /\ [][NextPairs]_vars

OthersVZ == <<varsCV, varsCA, varsCB, varsCC, varsPM, varsPG, varsMP, varsCM, varsUT, varsSC, varsCT, varsSO>>

InitVisualize == VZInitState /\ CVIdle /\ CAIdle /\ CBIdle /\ CCIdle /\ PMIdle /\ PGIdle /\ MPIdle /\ CMIdle /\ UTIdle /\ SCIdle /\ CTIdle /\ SOIdle

NextVisualize == \/ VZGrid /\ UNCHANGED OthersVZ
                 \/ VZPlot /\ UNCHANGED OthersVZ
                 \/ VZShow /\ UNCHANGED OthersVZ

SpecVisualize == InitVisualize /\ [][NextVisualize]_vars

OthersCM == <<varsCV, varsCA, varsCB, varsCC, varsPM, varsPG, varsMP, varsVZ, varsUT, varsSC, varsCT, varsSO>>

InitCutmix == CMInitState /\ CVIdle /\ CAIdle /\ CBIdle /\ CCIdle /\ PMIdle /\ PGIdle /\ MPIdle /\ VZIdle /\ UTIdle /\ SCIdle /\ CTIdle /\ SOIdle

NextCutmix == \/ CMSample /\ UNCHANGED OthersCM
              \/ CMGetBox /\ UNCHANGED OthersCM
              \/ CMMix /\ UNCHANGED OthersCM

SpecCutmix == InitCutmix /\ [][NextCutmix]_vars

OthersUT == <<varsCV, varsCA, varsCB, varsCC, varsPM, varsPG, varsMP, varsVZ, varsCM, varsSC, varsCT, varsSO>>

InitText == UTInitState /\ CVIdle /\ CAIdle /\ CBIdle /\ CCIdle /\ PMIdle /\ PGIdle /\ MPIdle /\ VZIdle /\ CMIdle /\ SCIdle /\ CTIdle /\ SOIdle

NextText == \/ UTSplit /\ UNCHANGED OthersUT
            \/ UTPad /\ UNCHANGED OthersUT
            \/ UTTruncate /\ UNCHANGED OthersUT
            \/ UTReturn /\ UNCHANGED OthersUT

SpecText == InitText /\ [][NextText]_vars

OthersSC == <<varsCV, varsCA, varsCB, varsCC, varsPM, varsPG, varsMP, varsVZ, varsCM, varsUT, varsCT, varsSO>>

InitSimclr == SCInitState /\ CVIdle /\ CAIdle /\ CBIdle /\ CCIdle /\ PMIdle /\ PGIdle /\ MPIdle /\ VZIdle /\ CMIdle /\ UTIdle /\ CTIdle /\ SOIdle

NextSimclr == \/ SCEpochBegin /\ UNCHANGED OthersSC
              \/ SCContrastiveUpdate /\ UNCHANGED OthersSC
              \/ SCProbeUpdate /\ UNCHANGED OthersSC
              \/ SCValidationBegin /\ UNCHANGED OthersSC
              \/ SCTestStep /\ UNCHANGED OthersSC
              \/ SCEpochEnd /\ UNCHANGED OthersSC

SpecSimclr == InitSimclr /\ [][NextSimclr]_vars

OthersCT == <<varsCV, varsCA, varsCB, varsCC, varsPM, varsPG, varsMP, varsVZ, varsCM, varsUT, varsSC, varsSO>>

InitCait == CTInitState /\ CVIdle /\ CAIdle /\ CBIdle /\ CCIdle /\ PMIdle /\ PGIdle /\ MPIdle /\ VZIdle /\ CMIdle /\ UTIdle /\ SCIdle /\ SOIdle

NextCait == \/ CTProject /\ UNCHANGED OthersCT
            \/ CTSelfAttnBlock /\ UNCHANGED OthersCT
            \/ CTTile /\ UNCHANGED OthersCT
            \/ CTClassAttnBlock /\ UNCHANGED OthersCT
            \/ CTConcat /\ UNCHANGED OthersCT
            \/ CTHead /\ UNCHANGED OthersCT

SpecCait == InitCait /\ [][NextCait]_vars

OthersSO == <<varsCV, varsCA, varsCB, varsCC, varsPM, varsPG, varsMP, varsVZ, varsCM, varsUT, varsSC, varsCT>>

InitOrder == SOInitState /\ CVIdle /\ CAIdle /\ CBIdle /\ CCIdle /\ PMIdle /\ PGIdle /\ MPIdle /\ VZIdle /\ CMIdle /\ UTIdle /\ SCIdle /\ CTIdle

NextOrder == \/ SOConstruct /\ UNCHANGED OthersSO
             \/ SOWeights /\ UNCHANGED OthersSO
             \/ SOCompile /\ UNCHANGED OthersSO
             \/ SOFit /\ UNCHANGED OthersSO
             \/ SOEvaluate /\ UNCHANGED OthersSO
             \/ SOGridSearch /\ UNCHANGED OthersSO

SpecOrder == InitOrder /\ [][NextOrder]_vars

(***************************************************************************)
(* Claims                                                                  *)
(***************************************************************************)

\* C1: once the model saved with model.save() has been reloaded with
\* load_model(), the restored layer's stored_variables equals, element for
\* element, the value the original layer held at save time (fit() changes it
\* only before the save), which is the value written under store["variables"].
C1_VariablesRoundTrip == cv_pc = "loaded" =>
    /\ DOMAIN cv_store = {"variables"}
    /\ cv_store["variables"] = stored_variables
    /\ DOMAIN restored_stored_variables = 1..VarLen
    /\ \A i \in 1..VarLen : restored_stored_variables[i] = stored_variables[i]

\* C1 witness: a reload after at least one fit() step.
C1_Witness == /\ cv_pc = "loaded"
              /\ cv_epochs > 0
              /\ restored_stored_variables = stored_variables
              /\ \E i \in 1..VarLen : stored_variables[i] # 0

\* The number of non-overlapping occurrences of tok that a left-to-right
\* scan of t finds.
RECURSIVE Occurrences(_, _)
Occurrences(t, tok) ==
    IF Len(t) < Len(tok) THEN 0
    ELSE IF OccursAt(t, tok, 1) THEN 1 + Occurrences(SubSeq(t, Len(tok) + 1, Len(t)), tok)
    ELSE Occurrences(Tail(t), tok)

\* C2: after build(), model.save() and load_model(), the restored layer's
\* assets is the text save_assets wrote with every "<unk>" replaced by
\* "little": no "<unk>" is left, each occurrence has grown by the one
\* character "little" is longer, and the sentence build() writes comes back
\* as "Mary had a little lamb."; the sentence build() sets on the restored
\* layer never survives loading.
C2_AssetsReplaced == ca_pc = "loaded" =>
    /\ assets_txt = assets
    /\ ~Contains(restored_assets, UnkToken)
    /\ Len(restored_assets) = Len(assets_txt) + Occurrences(assets_txt, UnkToken) * (Len(LittleWord) - Len(UnkToken))
    /\ (~Contains(assets_txt, UnkToken) => restored_assets = assets_txt)
    /\ (assets_txt = BuildSentence => restored_assets = <<"M", "a", "r", "y", " ", "h", "a", "d", " ", "a", " ", "l", "i", "t", "t", "l", "e", " ", "l", "a", "m", "b", ".">>)
    /\ restored_assets # BuildSentence

\* C2 witness: the script's own run, the built sentence saved and reloaded.
C2_Witness == /\ ca_pc = "loaded"
              /\ assets_txt = BuildSentence
              /\ restored_assets = <<"M", "a", "r", "y", " ", "h", "a", "d", " ", "a", " ", "l", "i", "t", "t", "l", "e", " ", "l", "a", "m", "b", ".">>

\* C3: get_build_config followed by build_from_config restores the built
\* state: for every layer_init (and input shape) given to build() before
\* saving, the restored model is built, the restored layer is built with
\* weights of the same shapes and initializer, and its layer_init is the
\* value given before saving.
C3_BuildRoundTrip == cb_pc = "loaded" =>
    /\ restored_built = TRUE
    /\ restored_layer.built = TRUE
    /\ "layer_init" \in DOMAIN restored_layer
    /\ restored_layer.layer_init = custom_layer.layer_init
    /\ restored_layer.layer_init = cb_file.build_config.layer_init
    /\ restored_layer = custom_layer

\* C3 witness: the script's initializer, restored after a reload.
C3_Witness == /\ cb_pc = "loaded"
              /\ restored_built
              /\ custom_layer.layer_init = "random_normal"
              /\ restored_layer.layer_init = "random_normal"

\* C4: get_compile_config followed by compile_from_config is a round trip:
\* after compile(optimizer, loss_fn, metrics), save and load, the restored
\* model's model_optimizer, loss_fn and loss_metrics each equal the
\* original's, and each is the value the file holds under the key
\* get_compile_config wrote for it ("model_optimizer", "loss_fn", "metric").
C4_CompileRoundTrip == cc_pc = "loaded" =>
    /\ restored_model_optimizer = model_optimizer
    /\ restored_loss_fn = loss_fn
    /\ restored_loss_metrics = loss_metrics
    /\ DOMAIN cc_file.compile_config = {"model_optimizer", "loss_fn", "metric"}
    /\ restored_model_optimizer = deserialize_keras_object(cc_file.compile_config.model_optimizer)
    /\ restored_loss_fn = deserialize_keras_object(cc_file.compile_config.loss_fn)
    /\ restored_loss_metrics = deserialize_list(cc_file.compile_config.metric)

\* C4 witness: the script's own arguments, a string optimizer, a registered
\* custom loss and a metrics list mixing a string and a registered function.
C4_Witness == /\ cc_pc = "loaded"
              /\ restored_model_optimizer = Str("SGD")
              /\ restored_loss_fn = Fn("small_square_sum_loss")
              /\ restored_loss_metrics = <<Str("accuracy"), Fn("mean_pred")>>

\* Position of entry (r, c) of a kernel of width kw in raster order.
RasterIndex(r, c, kw) == r * kw + c

\* C5: for a kernel of height kh and width kw, the mask built is 1 at (r, c)
\* exactly when (r, c) comes strictly before the centre (kh \div 2, kw \div 2)
\* in raster order, or is the centre and the mask type is "B"; it is 0 at
\* the centre for type "A" and everywhere after the centre; the entry is the
\* same for every input and output channel.
C5_MaskBeforeCentre == pm_pc = "built" =>
    LET kh == kernel_shape[1]
        kw == kernel_shape[2]
        centre == RasterIndex(kh \div 2, kw \div 2, kw)
    IN  /\ DOMAIN mask = KernelIndex(kernel_shape)
        /\ \A x \in DOMAIN mask :
              /\ mask[x] \in {0, 1}
              /\ mask[x] = 1 <=> \/ RasterIndex(x[1], x[2], kw) < centre
                                 \/ RasterIndex(x[1], x[2], kw) = centre /\ mask_type = "B"
              /\ mask[x] = mask[<<x[1], x[2], 0, 0>>]

\* C5 witness: the 7 x 7 type "A" kernel of the script's first layer, built,
\* with several channels: ones before the centre, zero at it and after it.
C5_Witness == /\ pm_pc = "built"
              /\ mask_type = "A"
              /\ kernel_shape = <<7, 7, 2, 2>>
              /\ mask[<<3, 2, 1, 1>>] = 1
              /\ mask[<<3, 3, 1, 1>>] = 0
              /\ mask[<<4, 0, 0, 1>>] = 0

\* Whether position p comes strictly before position q in raster order,
\* the origin at the top left.
Before(p, q) == p[1] < q[1] \/ (p[1] = q[1] /\ p[2] < q[2])

\* The images that agree with img on every position before q.
AgreeingImages(img, q) ==
    { [p \in Positions |-> IF Before(p, q) THEN img[p] ELSE later[p]] :
        later \in [{ p \in Positions : ~Before(p, q) } -> {0, 1}] }

\* The first n positions in raster order.
RasterPrefix(n) == [i \in 1..n |-> <<(i - 1) \div cols, (i - 1) % cols>>]

\* C6: the network's output at (row, col) depends only on the input pixels
\* strictly before (row, col) in raster order: the probabilities the loop
\* reads at (row, col) are the ones the network gives for every image that
\* agrees with the current one on the pixels already generated; and the
\* pixels are sampled once each, in raster order, each after all the
\* earlier ones were written (the later ones still hold their initial zero).
C6_Autoregressive ==
    /\ pg_pc = "sample" =>
          \A img \in AgreeingImages(pixels, <<row, col>>) :
              Predict(kernels, img)[<<row, col>>] = probs
    /\ pg_pc \in {"predict", "sample"} =>
          /\ sampled = RasterPrefix(row * cols + col)
          /\ \A p \in Positions : ~Before(p, <<row, col>>) => pixels[p] = 0
    /\ pg_pc = "done" => sampled = RasterPrefix(rows * cols)

\* C6 witness: the loop is about to sample the last pixel, the earlier
\* pixels written and not all zero, the probabilities read from them.
C6_Witness == /\ pg_pc = "sample"
              /\ row = rows - 1
              /\ col = cols - 1
              /\ probs > 0
              /\ pixels[<<0, 0>>] = 1
              /\ Len(sampled) = rows * cols - 1

\* The class label of an image of x.
LabelOfImage(img) == mp_y[CHOOSE k \in DOMAIN mp_x : mp_x[k] = img]

\* Entry k of a list, counted from 0 as the code counts.
Entry(list, k) == list[k + 1]

ShownCount(ts, nc) ==
    IF ts >= nc THEN CHOOSE m \in 0..ts : m % nc = 0 /\ m <= ts /\ ts < m + nc ELSE nc

\* C8: for every to_show >= 1 and num_col >= 1, when visualize ends it has
\* plotted a multiple of num_col examples, to_show trimmed to the largest
\* multiple of num_col when to_show >= num_col and raised to num_col when
\* to_show < num_col, example i in cell (i \div num_col, i % num_col) of the
\* num_row x num_col grid.
C8_VisualizeGrid == vz_pc \in {"shown", "raised"} =>
    /\ Len(plotted) = ShownCount(arg_to_show, num_col)
    /\ Len(plotted) % num_col = 0
    /\ \A k \in 1..Len(plotted) :
          /\ plotted[k].index = k - 1
          /\ plotted[k].cell = <<(k - 1) \div num_col, (k - 1) % num_col>>
          /\ plotted[k].cell[1] < num_row
          /\ plotted[k].cell[2] < num_col

\* Whether position p lies in the box get_box returned.
InBox(p, b) == /\ b.bby1 <= p[1] /\ p[1] < b.bby1 + b.target_h
               /\ b.bbx1 <= p[2] /\ p[2] < b.bbx1 + b.target_w

\* C9: for every sampled lambda and box centre, the image cutmix returns is
\* image2 on exactly the target_h x target_w box of get_box, which lies in
\* the image, and image1 everywhere else; the label is l * label1 +
\* (1 - l) * label2 with l = 1 - target_w * target_h / IMG_SHAPE^2, l times
\* IMG_SHAPE^2 is the number of the output's pixels taken from image1, and
\* the two label weights add up to one.
C9_CutmixProportional == cm_pc = "returned" =>
    /\ box.target_h >= 1 /\ box.bby1 + box.target_h <= IMG_SHAPE
    /\ box.target_w >= 1 /\ box.bbx1 + box.target_w <= IMG_SHAPE
    /\ DOMAIN image = ImagePositions
    /\ \A p \in ImagePositions : image[p] = IF InBox(p, box) THEN image2[p] ELSE image1[p]
    /\ lam = Unit - box.target_w * box.target_h
    /\ lam = Cardinality({ p \in ImagePositions : image[p] = image1[p] })
    /\ Unit - lam = Cardinality({ p \in ImagePositions : image[p] = image2[p] })
    /\ \A k \in DOMAIN label : label[k] = lam * cm_label1[k] + (Unit - lam) * cm_label2[k]
    /\ \A k \in DOMAIN label : cm_label1[k] = 1 /\ cm_label2[k] = 0 => label[k] = lam
    /\ \A k \in DOMAIN label : cm_label1[k] = 0 /\ cm_label2[k] = 1 => label[k] = Unit - lam

\* C9 witness: a box cut by the image's border, so neither a square nor the
\* size lambda asked for, with two different classes mixed.
C9_Witness == /\ cm_pc = "returned"
              /\ box.target_w # box.target_h
              /\ box.target_w > 1
              /\ box.bbx1 = 0
              /\ cm_label1 # cm_label2
              /\ lam = Unit - box.target_w * box.target_h

\* The words of text t followed by n padding tokens.
PaddedWords(t, n) == strings_split(t, " ") \o [k \in 1..n |-> padding_token]

\* C10: for every text, the text unify_text_length returns has exactly
\* max_seqlen tokens separated by spaces: the words of the text followed by
\* "<pad>" tokens when the text has fewer than max_seqlen words, its first
\* max_seqlen words otherwise; the label is returned unchanged.
C10_UnifiedLength == ut_pc = "returned" =>
    LET n == Len(strings_split(ut_text, " "))
        tokens == strings_split(ut_returned[1][1], " ")
    IN  /\ Len(ut_returned[1]) = 1
        /\ Len(tokens) = max_seqlen
        /\ tokens = IF n < max_seqlen THEN PaddedWords(ut_text, max_seqlen - n)
                    ELSE SubSeq(strings_split(ut_text, " "), 1, max_seqlen)
        /\ ut_returned[2] = ut_label

\* The weights that the latest update or test step changed.
Changed == { v \in AllWeights : sc_weights[v] # sc_before[v] }

\* C11: in every train step the contrastive update changes weights of the
\* encoder and the projection head only, the probe update weights of the
\* linear probe only; the contrastive update comes before the probe update,
\* so the probe optimizer never has applied more gradients than the
\* contrastive one and is one behind between the two updates; test_step
\* changes no weight.
C11_FrozenEncoder ==
    /\ sc_trace \in {<<>>, <<"contrastive">>, <<"contrastive", "probe">>, <<"test">>}
    /\ sc_trace = <<"contrastive">> =>
          /\ Changed \subseteq TrainableWeights("encoder") \cup TrainableWeights("projection_head")
          /\ \A v \in TrainableWeights("linear_probe") : sc_weights[v] = sc_before[v]
          /\ contrastive_iterations = probe_iterations + 1
    /\ sc_trace = <<"contrastive", "probe">> =>
          /\ Changed \subseteq TrainableWeights("linear_probe")
          /\ \A v \in TrainableWeights("encoder") \cup TrainableWeights("projection_head") :
                sc_weights[v] = sc_before[v]
          /\ contrastive_iterations = probe_iterations
    /\ sc_trace = <<"test">> =>
          /\ Changed = {}
          /\ contrastive_iterations = probe_iterations
    /\ sc_pc = "contrastive_done" <=> sc_trace = <<"contrastive">>

\* C11 witness: in the second epoch, after a validation, a train step whose
\* probe update changed the linear probe, the encoder having been trained.
C11_Witness == /\ sc_epoch = 1
               /\ sc_trace = <<"contrastive", "probe">>
               /\ Changed = TrainableWeights("linear_probe")
               /\ \E v \in TrainableWeights("encoder"), u \in TrainableWeights("linear_probe") :
                     sc_weights[v] # sc_weights[u]
               /\ contrastive_iterations > 1

\* The patch embeddings the last SA+FFN block returned.
LastSelfAttnOutput == ct_log[sa_ffn_layers].outputs

\* C12: every SA+FFN block is given and returns as many tokens as the
\* image has patches, so no CLS token; every CA+FFN block is given the
\* output of the last SA+FFN block and a single CLS token and returns a
\* single CLS token, its scores being those of one query, the CLS token,
\* for the CLS token and every patch as keys; the locals x and cls_tokens
\* change only by the blocks meant for them, and the tensor concatenated
\* before the head norm is the CLS token followed by the output of the
\* last SA+FFN block.
C12_ClsTokenLate ==
    LET n == Len(ct_inputs)
    IN  /\ \A b \in 1..Len(ct_log) :
              IF b <= sa_ffn_layers
              THEN /\ ct_log[b].kind = "sa"
                   /\ ct_log[b].x_cls = <<>>
                   /\ Len(ct_log[b].x) = n
                   /\ Len(ct_log[b].outputs) = n
                   /\ DOMAIN ct_log[b].attn_scores = (1..n) \X (1..n)
                   /\ b > 1 => ct_log[b].x = ct_log[b - 1].outputs
              ELSE /\ ct_log[b].kind = "ca"
                   /\ ct_log[b].x = LastSelfAttnOutput
                   /\ Len(ct_log[b].x_cls) = 1
                   /\ Len(ct_log[b].outputs) = 1
                   /\ DOMAIN ct_log[b].attn_scores = {1} \X (1..(n + 1))
                   /\ ct_log[b].x_cls = IF b = sa_ffn_layers + 1 THEN <<cls_token>>
                                        ELSE ct_log[b - 1].outputs
        /\ ct_pc = "sa" => cls_tokens = <<>>
        /\ ct_pc = "ca" /\ sa_ffn_layers > 0 => ct_x = LastSelfAttnOutput
        /\ ct_pc \in {"concatenated", "returned"} =>
              /\ Len(ct_log) = sa_ffn_layers + ca_ffn_layers
              /\ Len(ct_x) = n + 1
              /\ sa_ffn_layers > 0 => SubSeq(ct_x, 2, n + 1) = LastSelfAttnOutput
              /\ <<ct_x[1]>> = cls_tokens
              /\ ca_ffn_layers > 0 => <<ct_x[1]>> = ct_log[Len(ct_log)].outputs

\* C12 witness: an image of several patches went through all blocks, the
\* class attention changed the CLS token, the patches differ from it.
C12_Witness == /\ ct_pc = "concatenated"
               /\ Len(ct_inputs) > 1
               /\ Len(ct_log) = sa_ffn_layers + ca_ffn_layers
               /\ cls_tokens # <<cls_token>>
               /\ \E i \in 2..Len(ct_x) : ct_x[i] # ct_x[1]
               /\ ct_log[1].outputs # ct_log[1].x

\* Call number i of the log is a call op that ran: the last call of a script
\* that raised did not.
Ran(i, op) == so_log[i].op = op /\ ~(so_status = "raised" /\ i = Len(so_log))

\* Before call number i the model it acts on was the subject of a call op.
Earlier(i, op) == \E j \in 1..(i - 1) : so_log[j].op = op /\ so_log[j].model = so_log[i].model

FitAfterCompile == \A i \in 1..Len(so_log) : so_log[i].op = "fit" => Earlier(i, "compile")

=============================================================================
